---- MODULE Spec2Model ----
(***************************************************************************)
(* A model of Vale's check engine: the rule loader (check/check.go), the   *)
(* matchers (check/check.go), the dispatcher lintText and the file          *)
(* pipeline Lint / lintFiles (lint/lint.go).                                *)
(*                                                                          *)
(* Texts are sequences of whitespace-free tokens joined by single spaces;   *)
(* byte offsets are computed from the tokens' lengths.  The expressions the *)
(* loader builds from literals are matched character by character; an       *)
(* expression a rule file writes itself (`first`, `second`, `swap`) is a     *)
(* table from token to the match found inside that token.                   *)
(***************************************************************************)
EXTENDS Integers, Sequences, FiniteSets, Bags, TLC

VARIABLES
    AllChecks,  \* Manager.AllChecks: registry key -> Check
    errs,       \* errors handed to core.CheckError while loading
    lpc,        \* position of NewManager / the loader
    lghost,     \* loader history: the last load step and what it met
    input,      \* the inputs of the run: rule files, configuration, texts
    file,       \* run -> core.File (Sequences, Alerts, overrides, styles, ...)
    cfg,        \* core.Config as the linter reads it (MinAlertLevel, GChecks)
    blocks,     \* the blocks handed to lintText / the matchers, in order
    pos,        \* run -> number of blocks of the file already given to lintText
    call,       \* the last lintText call: its run, block, rules invoked, alerts added
    walk,       \* pipeline: position of the filepath.Walk callback
    wpc,        \* pipeline: file -> position of its worker goroutine
    sem,        \* pipeline: SizedWaitGroup slots taken
    filesChan,  \* pipeline: "open" | "closed"
    errc,       \* pipeline: buffered error channel (capacity 1)
    done,       \* pipeline: the done channel is closed
    lintpc,     \* pipeline: position of Linter.Lint
    linted      \* pipeline: the file results Lint has collected, as a bag

lvars == <<AllChecks, errs, lpc, lghost, input>>
fvars == <<file, cfg, blocks, pos, call>>
pvars == <<walk, wpc, sem, filesChan, errc, done, lintpc, linted>>
vars  == <<AllChecks, errs, lpc, lghost, input, file, cfg, blocks, pos, call,
           walk, wpc, sem, filesChan, errc, done, lintpc, linted>>

(***************************************************************************)
(* Bounds of the model.                                                    *)
(***************************************************************************)
MaxLen == 4        \* longest block text (in tokens) given to a pure matcher
MaxMax == 2        \* largest `max` a rule file declares
MaxBlocks == 3     \* blocks of one file given to the stateful matchers
MaxStyles == 2     \* longest list of global base styles in a configuration
NumFiles == 6      \* files of the walked directory that the walk accepts

(***************************************************************************)
(* Texts.                                                                  *)
(***************************************************************************)
RECURSIVE Offset(_, _)
Offset(txt, i) == IF i = 1 THEN 0 ELSE Offset(txt, i - 1) + Len(txt[i - 1]) + 1

TextLen(txt) == IF txt = <<>> THEN 0 ELSE Offset(txt, Len(txt)) + Len(txt[Len(txt)])

RECURSIVE SeqsUpTo(_, _)
SeqsUpTo(S, n) ==
    IF n = 0 THEN {<<>>}
    ELSE LET shorter == SeqsUpTo(S, n - 1)
         IN  shorter \cup {Append(s, x) : s \in {t \in shorter : Len(t) = n - 1}, x \in S}

\* s[p] and s[a:b] of a string, offsets counted from 0 as in the source.
Ch(s, p) == SubSeq(s, p + 1, p + 1)

Cut(s, a, b) == SubSeq(s, a + 1, b)

UpperAZ == "ABCDEFGHIJKLMNOPQRSTUVWXYZ"
LowerAZ == "abcdefghijklmnopqrstuvwxyz"

LowerOf ==
    [c \in {Ch(UpperAZ, k) : k \in 0..25} |->
        Ch(LowerAZ, CHOOSE k \in 0..25 : Ch(UpperAZ, k) = c)]

UpperOf ==
    [c \in {Ch(LowerAZ, k) : k \in 0..25} |->
        Ch(UpperAZ, CHOOSE k \in 0..25 : Ch(LowerAZ, k) = c)]

RECURSIVE MapChars(_, _)
MapChars(f, s) ==
    IF s = "" THEN ""
    ELSE (IF Ch(s, 0) \in DOMAIN f THEN f[Ch(s, 0)] ELSE Ch(s, 0))
            \o MapChars(f, Cut(s, 1, Len(s)))

ToLower(s) == MapChars(LowerOf, s)

ToUpper(s) == MapChars(UpperOf, s)

\* strings.TrimSpace: leading and trailing blanks and line ends are cut.
RECURSIVE TrimSpace(_)
TrimSpace(s) ==
    IF s = "" THEN s
    ELSE IF Ch(s, 0) \in {" ", "\n"} THEN TrimSpace(Cut(s, 1, Len(s)))
    ELSE IF Ch(s, Len(s) - 1) \in {" ", "\n"} THEN TrimSpace(Cut(s, 0, Len(s) - 1))
    ELSE s

\* txt[0:len(txt)]: the tokens of a text joined by single spaces.
RECURSIVE Join(_)
Join(txt) ==
    IF txt = <<>> THEN ""
    ELSE IF Len(txt) = 1 THEN txt[1]
    ELSE txt[1] \o " " \o Join(Tail(txt))

StringInSlice(s, slice) == \E i \in 1..Len(slice) : slice[i] = s

AllStringsInSlice(strs, slice) == \A i \in 1..Len(strs) : StringInSlice(strs[i], slice)

(***************************************************************************)
(* Regular expressions come in two forms.                                  *)
(*                                                                         *)
(* A table (kind "table"): re.m maps a token to the one match found in it: *)
(* off (offset of the match in the token), str (the matched text), grp     *)
(* (index of the numbered group that took part, 0 for none) and cap (that  *)
(* group's text).  The line end lintLines leaves on a line's last token is *)
(* no part of what a table matches.                                        *)
(*                                                                         *)
(* An alternation of literals (kind "lits"), what the templates of the     *)
(* loader build: the literal `pre`, then the alternatives `alts` in their  *)
(* order, between word boundaries when `word`, letters compared without    *)
(* case when `fold`.  It is matched against the text character by          *)
(* character.  When `each`, every alternative is a group of its own, the   *)
(* k-th alternative group k, and a match tells which group took part.      *)
(*                                                                         *)
(* re.names is SubexpNames() without its leading "".                       *)
(***************************************************************************)
Whole(S) == [t \in S |-> [off |-> 0, str |-> t, grp |-> 0, cap |-> ""]]

Regexp(names, m) == [kind |-> "table", names |-> names, m |-> m]

Lits(names, pre, alts, word, fold) ==
    [kind |-> "lits", names |-> names, pre |-> pre, alts |-> alts,
     word |-> word, fold |-> fold, each |-> FALSE]

\* (?P<n1>a1)|(?P<n2>a2) in the word or the nonword template.
Named(names, alts, word, fold) == [Lits(names, "", alts, word, fold) EXCEPT !.each = TRUE]

\* regexp.Compile(""): the expression that matches the empty string anywhere.
EmptyExpr == Lits(<<>>, "", <<"">>, FALSE, FALSE)

\* The token without the line end.
Bare(t) == IF t # "" /\ Ch(t, Len(t) - 1) = "\n" THEN Cut(t, 0, Len(t) - 1) ELSE t

RECURSIVE FindFrom(_, _, _)
FindFrom(re, txt, i) ==
    IF i > Len(txt) THEN <<>>
    ELSE (IF Bare(txt[i]) \in DOMAIN re.m
          THEN LET hit == re.m[Bare(txt[i])]
                   s   == Offset(txt, i) + hit.off
               IN  <<[loc |-> <<s, s + Len(hit.str)>>, str |-> hit.str,
                      grp |-> hit.grp, cap |-> hit.cap]>>
          ELSE <<>>) \o FindFrom(re, txt, i + 1)

WordChars == {Ch(LowerAZ \o UpperAZ \o "0123456789_", k) : k \in 0..62}

\* \b at offset p of s.
Boundary(s, p) ==
    (p > 0 /\ Ch(s, p - 1) \in WordChars) # (p < Len(s) /\ Ch(s, p) \in WordChars)

SameText(a, b, fold) == IF fold THEN ToLower(a) = ToLower(b) ELSE a = b

\* Where alternative k of re, tried at offset p of s, ends; -1 when it fails.
AltAt(re, s, p, k) ==
    LET q == p + Len(re.pre)
        e == q + Len(re.alts[k])
    IN  IF /\ e <= Len(s)
           /\ SameText(Cut(s, p, q), re.pre, re.fold)
           /\ re.word => Boundary(s, q)
           /\ SameText(Cut(s, q, e), re.alts[k], re.fold)
           /\ re.word => Boundary(s, e)
        THEN e ELSE -1

\* The match that starts at p: <<end, k>> for the first alternative k that
\* matches, <<>> for none.  MatchFrom goes on from alternative k, whose end is e.
RECURSIVE MatchAt(_, _, _, _), MatchFrom(_, _, _, _, _)
MatchAt(re, s, p, k) ==
    IF k > Len(re.alts) THEN <<>> ELSE MatchFrom(re, s, p, k, AltAt(re, s, p, k))

MatchFrom(re, s, p, k, e) == IF e >= 0 THEN <<e, k>> ELSE MatchAt(re, s, p, k + 1)

\* Regexp.doExecute from offset `at`: the leftmost match <<start, end, k>>,
\* <<>> for none.  ExecuteFrom goes on from offset `at`, where MatchAt found m.
RECURSIVE Execute(_, _, _), ExecuteFrom(_, _, _, _)
Execute(re, s, at) ==
    IF at > Len(s) THEN <<>> ELSE ExecuteFrom(re, s, at, MatchAt(re, s, at, 1))

ExecuteFrom(re, s, at, m) ==
    IF m # <<>> THEN <<at, m[1], m[2]>> ELSE Execute(re, s, at + 1)

\* Regexp.allMatches: an empty match moves the search on by one character and
\* is dropped when it starts where the previous match ended.  Deliver is the
\* loop body for the match `mat` that doExecute found from `at`.
RECURSIVE AllMatches(_, _, _, _), Deliver(_, _, _, _, _)
AllMatches(re, s, at, prevMatchEnd) == Deliver(re, s, at, prevMatchEnd, Execute(re, s, at))

Deliver(re, s, at, prevMatchEnd, mat) ==
    IF mat = <<>> THEN <<>>
    ELSE (IF ~(mat[2] = at /\ mat[1] = prevMatchEnd)
          THEN <<[loc |-> <<mat[1], mat[2]>>, str |-> Cut(s, mat[1], mat[2]),
                  grp |-> IF re.each THEN mat[3] ELSE 0,
                  cap |-> IF re.each THEN Cut(s, mat[1], mat[2]) ELSE ""]>>
          ELSE <<>>)
         \o AllMatches(re, s, IF mat[2] = at THEN at + 1 ELSE mat[2], mat[2])

FindAll(re, txt) ==
    IF re.kind = "lits" THEN AllMatches(re, Join(txt), 0, -1) ELSE FindFrom(re, txt, 1)

(***************************************************************************)
(* Alerts.                                                                 *)
(***************************************************************************)
Alert(chk, span, arg) ==
    [Check |-> chk.Name, Severity |-> chk.Level, Span |-> span, Arg |-> arg]

makeAlert(chk, mat) == Alert(chk, mat.loc, mat.str)

\* What a matcher call leaves behind: the alerts it returns and the sequence
\* memory, or a run-time panic raised inside it.
Result(alerts, seqs) == [alerts |-> alerts, seqs |-> seqs, panic |-> FALSE]

Panic(seqs) == [alerts |-> <<>>, seqs |-> seqs, panic |-> TRUE]

(***************************************************************************)
(* The matchers (check/check.go).  Each returns the alerts and the file's  *)
(* sequence memory as the call leaves it.                                  *)
(***************************************************************************)
RECURSIVE AlertsOf(_, _, _)
AlertsOf(chk, locs, i) ==
    IF i > Len(locs) THEN <<>>
    ELSE <<makeAlert(chk, locs[i])>> \o AlertsOf(chk, locs, i + 1)

checkExistence(txt, chk, seqs, r) ==
    Result(AlertsOf(chk, FindAll(r, txt), 1), seqs)

checkOccurrence(txt, chk, seqs, r, lim) ==
    LET locs == FindAll(r, txt)
        occurrences == Len(locs)
    IN  IF occurrences > lim
        THEN Result(<<Alert(chk, <<locs[1].loc[1], locs[occurrences].loc[2]>>, "")>>, seqs)
        ELSE Result(<<>>, seqs)

\* Mutant: the span runs from the current match's start to the previous
\* match's end.
RepetitionStep_Swapped(chk, st, mat) ==
    LET curr == TrimSpace(mat.str)
        hit  == IF chk.Ignorecase
                THEN ToLower(curr) = ToLower(st.prev) /\ curr # ""
                ELSE curr = st.prev /\ curr # ""
        count == IF hit THEN st.count + 1 ELSE st.count
        fire == hit /\ count > chk.Max
    IN  [prev   |-> curr,
         ploc   |-> mat.loc,
         count  |-> IF fire THEN 0 ELSE count,
         alerts |-> IF fire
                    THEN Append(st.alerts, Alert(chk, <<mat.loc[1], st.ploc[2]>>, curr))
                    ELSE st.alerts]

\* One iteration of checkRepetition's loop; st = [prev, ploc, count, alerts].
RepetitionStep(chk, st, mat) ==
    LET curr == TrimSpace(mat.str)
        hit  == IF chk.Ignorecase
                THEN ToLower(curr) = ToLower(st.prev) /\ curr # ""
                ELSE curr = st.prev /\ curr # ""
        count == IF hit THEN st.count + 1 ELSE st.count
        fire == hit /\ count > chk.Max
    IN  [prev   |-> curr,
         ploc   |-> mat.loc,
         count  |-> IF fire THEN 0 ELSE count,
         alerts |-> IF fire
                    THEN Append(st.alerts, Alert(chk, <<st.ploc[1], mat.loc[2]>>, curr))
                    ELSE st.alerts]

RECURSIVE RepetitionLoop(_, _, _, _)
RepetitionLoop(chk, locs, i, st) ==
    IF i > Len(locs) THEN st
    ELSE RepetitionLoop(chk, locs, i + 1, RepetitionStep(chk, st, locs[i]))

checkRepetition(txt, chk, seqs, r) ==
    LET st0 == [prev |-> "", ploc |-> <<>>, count |-> 0, alerts |-> <<>>]
    IN  Result(RepetitionLoop(chk, FindAll(r, txt), 1, st0).alerts, seqs)

\* First loop of checkConditional: every match of the consequent stores its
\* first group (mat[1]) when the expression has a group at all.
\* Mutant: the definitions found in the block replace the memory.
StoreConsequents_Replace(second, matches, i, seqs) ==
    IF matches = <<>> THEN seqs ELSE [j \in 1..Len(matches) |-> matches[j].cap]

RECURSIVE StoreConsequents(_, _, _, _)
StoreConsequents(second, matches, i, seqs) ==
    IF i > Len(matches) THEN seqs
    ELSE StoreConsequents(second, matches, i + 1,
            IF Len(second.names) + 1 > 1
            THEN Append(seqs, IF matches[i].grp = 1 THEN matches[i].cap ELSE "")
            ELSE seqs)

RECURSIVE Antecedents(_, _, _, _)
Antecedents(chk, locs, i, seqs) ==
    IF i > Len(locs) THEN <<>>
    ELSE (IF ~StringInSlice(locs[i].str, seqs) /\ ~StringInSlice(locs[i].str, chk.Exceptions)
          THEN <<makeAlert(chk, locs[i])>>
          ELSE <<>>) \o Antecedents(chk, locs, i + 1, seqs)

\* Mutant: the antecedents are checked against the memory as it was on entry.
checkConditional_StaleMemory(txt, chk, seqs, r) ==
    Result(Antecedents(chk, FindAll(r[2], txt), 1, seqs),
           StoreConsequents(r[1], FindAll(r[1], txt), 1, seqs))

\* r = <<second, first>>
checkConditional(txt, chk, seqs, r) ==
    LET seqs2 == StoreConsequents(r[1], FindAll(r[1], txt), 1, seqs)
    IN  Result(Antecedents(chk, FindAll(r[2], txt), 1, seqs2), seqs2)

\* The loops of checkConsistency; st = [loc, seqs], loc the last group that matched.
RECURSIVE ConsistencyLoop(_, _, _, _)
ConsistencyLoop(r, matches, i, st) ==
    IF i > Len(matches) THEN st
    ELSE ConsistencyLoop(r, matches, i + 1,
            IF matches[i].grp > 0
            THEN [loc |-> <<matches[i]>>, seqs |-> Append(st.seqs, r.names[matches[i].grp])]
            ELSE st)

checkConsistency(txt, chk, seqs, r, opts) ==
    LET matches == FindAll(r, txt)
        st == ConsistencyLoop(r, matches, 1, [loc |-> <<>>, seqs |-> seqs])
    IN  IF matches # <<>> /\ AllStringsInSlice(opts, st.seqs)
        THEN Result(<<makeAlert([chk EXCEPT !.Name = chk.Extends], st.loc[1])>>, st.seqs)
        ELSE Result(<<>>, st.seqs)

\* FindAllStringSubmatchIndex for a substitution expression: re.m maps a token
\* to [off, str, groups], groups being the numbered groups that took part in
\* the match, in increasing order, each [n, off, str].
RECURSIVE FindSubmatchFrom(_, _, _)
FindSubmatchFrom(re, txt, i) ==
    IF i > Len(txt) THEN <<>>
    ELSE (IF Bare(txt[i]) \in DOMAIN re.m
          THEN LET hit == re.m[Bare(txt[i])]
                   s   == Offset(txt, i) + hit.off
               IN  <<[g \in 1..Len(hit.groups) |->
                        [n   |-> hit.groups[g].n,
                         loc |-> <<s + hit.groups[g].off,
                                   s + hit.groups[g].off + Len(hit.groups[g].str)>>,
                         str |-> hit.groups[g].str]]>>
          ELSE <<>>) \o FindSubmatchFrom(re, txt, i + 1)

\* The loops of checkSubstitution over the matches and their groups;
\* st = [alerts, panic].  repl[(idx/2)-1] is repl[n] here (sequences start at
\* 1): a group numbered beyond the replacements is an index out of range.
RECURSIVE SubstitutionGroups(_, _, _, _, _)
SubstitutionGroups(chk, repl, submat, g, st) ==
    IF g > Len(submat) \/ st.panic THEN st
    ELSE LET grp == submat[g]
         IN  IF grp.n > Len(repl)
             THEN [st EXCEPT !.panic = TRUE]
             ELSE LET expected == repl[grp.n]
                      observed == TrimSpace(grp.str)
                  IN  SubstitutionGroups(chk, repl, submat, g + 1,
                         IF expected # observed
                         THEN [st EXCEPT !.alerts =
                                 Append(@, Alert(chk, grp.loc, expected \o "/" \o observed))]
                         ELSE st)

RECURSIVE SubstitutionLoop(_, _, _, _, _)
SubstitutionLoop(chk, repl, matches, i, st) ==
    IF i > Len(matches) \/ st.panic THEN st
    ELSE SubstitutionLoop(chk, repl, matches, i + 1,
                          SubstitutionGroups(chk, repl, matches[i], 1, st))

checkSubstitution(txt, chk, seqs, r, repl) ==
    LET matches == FindSubmatchFrom(r, txt, 1)
        st == SubstitutionLoop(chk, repl, matches, 1, [alerts |-> <<>>, panic |-> FALSE])
    IN  IF matches = <<>> THEN Result(<<>>, seqs)
        ELSE IF st.panic THEN Panic(seqs)
        ELSE Result(st.alerts, seqs)

\* Regexp.MatchString, the Check of a capitalization rule whose `match` is an
\* expression.
MatchString(re, txt) == Execute(re, Join(txt), 0) # <<>>

\* strings.Fields of a text.
Fields(txt) == [i \in 1..Len(txt) |-> Bare(txt[i])]

\* The named predicates of a capitalization rule.  `$lower` and `$upper` hold
\* of a text that its lower-case (upper-case) form equals.  `$sentence` holds
\* when the first word starts with a capital and the others are in lower case.
\* `$title` holds when every word is written as the style's title converter
\* writes it: the first and the last word and every major word capitalized,
\* the minor words in lower case.
lower(txt) == Join(txt) = ToLower(Join(txt))

upper(txt) == Join(txt) = ToUpper(Join(txt))

Capitalized(w) == IF w = "" THEN w ELSE ToUpper(Ch(w, 0)) \o ToLower(Cut(w, 1, Len(w)))

sentence(txt) ==
    LET ws == Fields(txt)
    IN  \A i \in 1..Len(ws) : ws[i] = (IF i = 1 THEN Capitalized(ws[i]) ELSE ToLower(ws[i]))

MinorWords(style) ==
    IF style = "Chicago"
    THEN {"a", "an", "the", "and", "or", "to", "of", "in", "on", "from", "with"}
    ELSE {"a", "an", "the", "and", "or", "to", "of", "in", "on"}

TitleConverter(style) == [style |-> style]

title(txt, tc) ==
    LET ws == Fields(txt)
    IN  \A i \in 1..Len(ws) :
            ws[i] = (IF i \in {1, Len(ws)} \/ ToLower(ws[i]) \notin MinorWords(tc.style)
                     THEN Capitalized(ws[i]) ELSE ToLower(ws[i]))

varToFunc == ("$sentence" :> "sentence") @@ ("$lower" :> "lower") @@ ("$upper" :> "upper")

\* chk.Check(txt): the function addCapitalizationCheck stored in the rule.
Check(chk, txt) ==
    CASE chk.Check.kind = "title"    -> title(txt, chk.Check.tc)
      [] chk.Check.kind = "sentence" -> sentence(txt)
      [] chk.Check.kind = "lower"    -> lower(txt)
      [] chk.Check.kind = "upper"    -> upper(txt)
      [] chk.Check.kind = "regexp"   -> MatchString(chk.Check.re, txt)

checkCapitalization(txt, chk, seqs) ==
    IF ~Check(chk, txt)
    THEN Result(<<makeAlert(chk, [loc |-> <<0, TextLen(txt)>>, str |-> Join(txt)])>>, seqs)
    ELSE Result(<<>>, seqs)

(***************************************************************************)
(* The rule loader (check/check.go).  A name `Style.Rule` is the sequence  *)
(* of its dot-separated parts, so strings.Split(name, ".")[i] is           *)
(* name[i + 1].  A rule file's decoded YAML is a record `generic`; a key   *)
(* the file leaves out is a field the record lacks.                        *)
(***************************************************************************)
LevelToInt == [suggestion |-> 0, warning |-> 1, error |-> 2]

Get(g, k, d) == IF k \in DOMAIN g THEN g[k] ELSE d

\* An expression a rule file gives as the table of what it matches (`first`
\* and `second` of a conditional rule); the key left out is the string "".
Expr(g, k) ==
    IF k \in DOMAIN g THEN [text |-> "table", tab |-> g[k]] ELSE [text |-> "", tab |-> <<>>]

\* mapstructure.Decode: the typed definition, absent keys at their zero values.
\* `tokens` and `raw` are lists of literals, `token` and `match` one literal.
Decode(g) ==
    [Name |-> g.name, Level |-> g.level, Scope |-> g.scope, Extends |-> g.extends,
     Code |-> Get(g, "code", FALSE), Max |-> Get(g, "max", 0),
     Ignorecase |-> Get(g, "ignorecase", FALSE), Nonword |-> Get(g, "nonword", FALSE),
     Tokens |-> Get(g, "tokens", <<>>), Raw |-> Get(g, "raw", <<>>),
     Token |-> Get(g, "token", ""),
     Either |-> Get(g, "either", {}),
     First |-> Expr(g, "first"), Second |-> Expr(g, "second"),
     Exceptions |-> Get(g, "exceptions", <<>>),
     Swap |-> Get(g, "swap", {}),
     Match |-> Get(g, "match", ""), Style |-> Get(g, "style", ""), Check |-> <<>>]

Fn(kind, chk, re, aux) == [kind |-> kind, chk |-> chk, re |-> re, aux |-> aux]

updateAllChecks(all, chkDef, fn) ==
    LET chk == [Rule |-> fn, Extends |-> chkDef.Extends, Code |-> chkDef.Code,
                Level |-> LevelToInt[chkDef.Level], Scope |-> chkDef.Scope]
    IN  [n \in DOMAIN all \cup {chkDef.Name} |-> IF n = chkDef.Name THEN chk ELSE all[n]]

\* strings.Join(a, "")
RECURSIVE Concat(_)
Concat(a) == IF a = <<>> THEN "" ELSE a[1] \o Concat(Tail(a))

\* strings.Join(chkDef.Tokens, "|") as the alternatives it makes.
Alternatives(tokens) == IF tokens = <<>> THEN <<"">> ELSE tokens

\* regexp.Compile of an expression put together from literals: of the
\* characters with a meaning of their own the literals of a rule file hold
\* only a `(` that nothing closes, with which the expression does not compile.
RECURSIVE Opens(_)
Opens(s) ==
    IF s = "" THEN 0 ELSE (IF Ch(s, 0) = "(" THEN 1 ELSE 0) + Opens(Cut(s, 1, Len(s)))

CompilesText(s) == Opens(s) = 0

\* What an add...Check function leaves: the registry and the errors handed to
\* core.CheckError.
Added(all) == [all |-> all, handed |-> <<>>]

RegexError(all) == [all |-> all, handed |-> <<"regex error">>]

addExistenceCheck(all, chkName, chkDef) ==
    LET word == ~chkDef.Nonword /\ Len(chkDef.Tokens) > 0
        re == Lits(<<>>, Concat(chkDef.Raw), Alternatives(chkDef.Tokens), word,
                   chkDef.Ignorecase)
    IN  IF CompilesText(Concat(chkDef.Raw) \o Concat(chkDef.Tokens))
        THEN Added(updateAllChecks(all, chkDef, Fn("existence", chkDef, re, <<>>)))
        ELSE RegexError(all)

addRepetitionCheck(all, chkName, chkDef) ==
    LET re == Lits(<<"1">>, "", Alternatives(chkDef.Tokens), FALSE, chkDef.Ignorecase)
    IN  IF CompilesText(Concat(chkDef.Tokens))
        THEN Added(updateAllChecks(all, chkDef, Fn("repetition", chkDef, re, <<>>)))
        ELSE RegexError(all)

addOccurrenceCheck(all, chkName, chkDef) ==
    LET re == Lits(<<>>, "", <<chkDef.Token>>, FALSE, FALSE)
    IN  IF ~CompilesText(chkDef.Token) THEN RegexError(all)
        ELSE IF chkDef.Max >= 1
        THEN Added(updateAllChecks(all, chkDef, Fn("occurrence", chkDef, re, chkDef.Max)))
        ELSE Added(all)

\* The consequent `second` is given as its group names and a table token -> the
\* text its first group captures; the antecedent `first` as token -> match.
\* Tables are expressions that compile.
addConditionalCheck(all, chkName, chkDef) ==
    LET second == IF chkDef.Second.text = "" THEN EmptyExpr
                  ELSE Regexp(chkDef.Second.tab.names,
                              [t \in DOMAIN chkDef.Second.tab.toks |->
                                 [off |-> 0, str |-> t, grp |-> 1,
                                  cap |-> chkDef.Second.tab.toks[t]]])
        first  == IF chkDef.First.text = "" THEN EmptyExpr
                  ELSE Regexp(<<>>, chkDef.First.tab)
    IN  updateAllChecks(all, chkDef, Fn("conditional", chkDef, <<second, first>>, <<>>))

\* The loop of addConsistencyCheck over chkDef.Either in the order `pairs` (Go
\* ranges over the map in an order of its own choosing).
RECURSIVE ConsistencyPairs(_, _, _, _, _, _)
ConsistencyPairs(st, chkName, chkDef, pairs, i, final) ==
    IF i > Len(pairs) THEN st
    ELSE LET count == 2 * i
             chkKey == chkName[2]
             v1 == pairs[i][1]
             v2 == pairs[i][2]
             subs == <<chkKey \o ToString(count), chkKey \o ToString(count + 1)>>
             re == Named(subs, <<v1, v2>>, ~chkDef.Nonword, chkDef.Ignorecase)
             def == [chkDef EXCEPT !.Extends = chkName, !.Name = Append(chkName, v1)]
         IN  ConsistencyPairs(
                 IF CompilesText(v1 \o v2)
                 THEN [st EXCEPT !.all = updateAllChecks(st.all, def,
                                             Fn("consistency", final, re, subs))]
                 ELSE [st EXCEPT !.handed = Append(st.handed, "regex error")],
                 chkName, chkDef, pairs, i + 1, final)

\* The closures share the variable chkDef: each sees the Extends and the Name
\* that the last pair whose expression compiled has assigned.
addConsistencyCheck(all, chkName, chkDef, pairs) ==
    LET ok == {i \in 1..Len(pairs) : CompilesText(pairs[i][1] \o pairs[i][2])}
        last == CHOOSE i \in ok : \A j \in ok : j <= i
        final == IF ok = {} THEN chkDef
                 ELSE [chkDef EXCEPT !.Extends = chkName,
                                     !.Name = Append(chkName, pairs[last][1])]
    IN  ConsistencyPairs(Added(all), chkName, chkDef, pairs, 1, final)

(***************************************************************************)
(* A `swap` pattern is [pieces, m]: the pieces its text is written with    *)
(* (what strings.Count sees) and the table token -> [off, str, caps] of    *)
(* what it matches, caps being the capturing groups of the pattern itself  *)
(* that took part, each [k, off, str].                                     *)
(***************************************************************************)
CountIn(piece, sub) ==
    CASE sub = "("   -> IF piece \in {"(?:", "\\(", "("} THEN 1 ELSE 0
      [] sub = "?:"  -> IF piece \in {"(?:", "?:"} THEN 1 ELSE 0
      [] sub = "\\(" -> IF piece = "\\(" THEN 1 ELSE 0
      [] OTHER -> 0

\* strings.Count(regexstr, sub)
RECURSIVE Count(_, _)
Count(pieces, sub) ==
    IF pieces = <<>> THEN 0 ELSE CountIn(Head(pieces), sub) + Count(Tail(pieces), sub)

\* The capturing groups a pattern declares itself: a `(` that `?:` does not follow.
UserGroups(pat) == Count(pat.pieces, "(") - Count(pat.pieces, "\\(")
                   - Cardinality({i \in 1..Len(pat.pieces) : pat.pieces[i] = "(?:"})

\* regexp.Compile fails on a group that is never closed (or never opened).
Compiles(pat) ==
    Cardinality({i \in 1..Len(pat.pieces) : pat.pieces[i] \in {"(?:", "("}})
        = Cardinality({i \in 1..Len(pat.pieces) : pat.pieces[i] = ")"})

\* addSubstitutionCheck, lines 412-428: the pattern is skipped.
Refused(pat) ==
    LET opens == Count(pat.pieces, "(")
    IN  opens # Count(pat.pieces, "?:") /\ opens # Count(pat.pieces, "\\(")

\* The loop of addSubstitutionCheck over chkDef.Swap in the order `swaps`;
\* st = [tokens, replacements].
RECURSIVE SwapLoop(_, _, _)
SwapLoop(swaps, i, st) ==
    IF i > Len(swaps) THEN st
    ELSE SwapLoop(swaps, i + 1,
            IF Refused(swaps[i][1]) THEN st
            ELSE [tokens |-> Append(st.tokens, swaps[i][1]),
                  replacements |-> Append(st.replacements, swaps[i][2])])

\* The number of the group `(regexstr)` wraps the j-th accepted pattern in.
RECURSIVE GroupOf(_, _)
GroupOf(tokens, j) ==
    IF j = 1 THEN 1 ELSE GroupOf(tokens, j - 1) + 1 + UserGroups(tokens[j - 1])

\* The compiled alternation `(p1)|(p2)|...`: the first alternative that
\* matches a token decides its groups.
CompileSwap(tokens) ==
    LET toks == UNION {DOMAIN tokens[j].m : j \in 1..Len(tokens)}
        first(t) == CHOOSE j \in 1..Len(tokens) :
                        /\ t \in DOMAIN tokens[j].m
                        /\ \A k \in 1..(j - 1) : t \notin DOMAIN tokens[k].m
    IN  [names |-> <<>>,
         m |-> [t \in toks |->
                  LET j == first(t)
                      hit == tokens[j].m[t]
                  IN  [off |-> hit.off, str |-> hit.str,
                       groups |-> <<[n |-> GroupOf(tokens, j), off |-> 0, str |-> hit.str]>>
                                  \o [c \in 1..Len(hit.caps) |->
                                        [n |-> GroupOf(tokens, j) + hit.caps[c].k,
                                         off |-> hit.caps[c].off, str |-> hit.caps[c].str]]]]]

\* Returns the registry and the errors handed to core.CheckError: when the
\* joined expression does not compile, the error of regexp.Compile.
addSubstitutionCheck(all, chkName, chkDef, swaps) ==
    LET st == SwapLoop(swaps, 1, [tokens |-> <<>>, replacements |-> <<>>])
    IN  IF \A j \in 1..Len(st.tokens) : Compiles(st.tokens[j])
        THEN [all |-> updateAllChecks(all, chkDef,
                        Fn("substitution", chkDef, CompileSwap(st.tokens), st.replacements)),
              handed |-> <<>>]
        ELSE [all |-> all, handed |-> <<"regex error">>]

addCapitalizationCheck(all, chkName, chkDef) ==
    LET style == IF chkDef.Style = "Chicago" THEN "Chicago" ELSE "AP"
        fn == IF chkDef.Match = "$title"
              THEN [kind |-> "title", tc |-> TitleConverter(style)]
              ELSE IF chkDef.Match \in DOMAIN varToFunc
              THEN [kind |-> varToFunc[chkDef.Match]]
              ELSE [kind |-> "regexp",
                    re |-> Lits(<<>>, "", <<chkDef.Match>>, FALSE, FALSE)]
        def == [chkDef EXCEPT !.Check = fn]
    IN  IF fn.kind = "regexp" /\ ~CompilesText(chkDef.Match) THEN RegexError(all)
        ELSE Added(updateAllChecks(all, def, Fn("capitalization", def, <<>>, <<>>)))

\* Returns the registry and the errors handed to core.CheckError on the way.
makeCheck(all, generic, extends, chkName, pairs) ==
    LET def == Decode(generic)
    IN  CASE extends = "existence"   -> addExistenceCheck(all, chkName, def)
          [] extends = "occurrence"  -> addOccurrenceCheck(all, chkName, def)
          [] extends = "repetition"  -> addRepetitionCheck(all, chkName, def)
          [] extends = "consistency" -> addConsistencyCheck(all, chkName, def, pairs)
          [] extends = "conditional" -> Added(addConditionalCheck(all, chkName, def))
          [] extends = "substitution" -> addSubstitutionCheck(all, chkName, def, pairs)
          [] extends = "capitalization" -> addCapitalizationCheck(all, chkName, def)
          [] OTHER -> Added(all)

extensionPoints ==
    {"capitalization", "conditional", "consistency", "existence", "occurrence",
     "repetition", "substitution"}

validateDefinition(generic, name) ==
    IF "extends" \notin DOMAIN generic THEN "missing extension point"
    ELSE IF generic.extends \notin extensionPoints THEN "unknown extension point"
    ELSE IF "message" \notin DOMAIN generic THEN "missing message"
    ELSE ""

\* addCheck returns the registry, the error ("" for nil) and the errors handed
\* to core.CheckError inside it.
addCheck(all, ruleToLevel, file_, chkName, pairs) ==
    LET defErr == validateDefinition(file_, chkName)
        withName == [k \in DOMAIN file_ \cup {"name", "level", "scope"} |->
                        IF k = "name" THEN chkName
                        ELSE IF k = "level"
                             THEN IF chkName \in DOMAIN ruleToLevel THEN ruleToLevel[chkName]
                                  ELSE Get(file_, "level", "warning")
                        ELSE IF k = "scope" THEN Get(file_, "scope", <<"text">>)
                        ELSE file_[k]]
        made == makeCheck(all, withName, withName.extends, chkName, pairs)
    IN  IF defErr # "" THEN [all |-> all, err |-> defErr, handed |-> <<>>]
        ELSE [all |-> made.all, err |-> "", handed |-> made.handed]

\* loadCheck for the file `fName` (its name split at the dots) of directory
\* `style`.  strings.HasSuffix(fName, ".yml") asks for a dot before the last
\* part.  A file ioutil.ReadFile cannot read has the content [unreadable |->
\* TRUE]: its error is handed to core.CheckError and returned.
loadCheck(all, ruleToLevel, style, fName, content, pairs) ==
    IF Len(fName) >= 2 /\ fName[Len(fName)] = "yml"
    THEN IF "unreadable" \in DOMAIN content
         THEN [all |-> all, err |-> "read error", handed |-> <<"read error">>]
         ELSE LET chkName == <<style, fName[1]>>
              IN  IF chkName \in DOMAIN all
                  THEN [all |-> all, err |-> "duplicate check", handed |-> <<>>]
                  ELSE addCheck(all, ruleToLevel, content, chkName, pairs)
    ELSE [all |-> all, err |-> "", handed |-> <<>>]

\* The closure a Check holds, applied to a text and the file's sequence memory.
Rule(chk, txt, seqs) ==
    LET fn == chk.Rule
    IN  CASE fn.kind = "existence"   -> checkExistence(txt, fn.chk, seqs, fn.re)
          [] fn.kind = "occurrence"  -> checkOccurrence(txt, fn.chk, seqs, fn.re, fn.aux)
          [] fn.kind = "repetition"  -> checkRepetition(txt, fn.chk, seqs, fn.re)
          [] fn.kind = "consistency" -> checkConsistency(txt, fn.chk, seqs, fn.re, fn.aux)
          [] fn.kind = "conditional" -> checkConditional(txt, fn.chk, seqs, fn.re)
          [] fn.kind = "substitution" -> checkSubstitution(txt, fn.chk, seqs, fn.re, fn.aux)
          [] fn.kind = "capitalization" -> checkCapitalization(txt, fn.chk, seqs)

(***************************************************************************)
(* The dispatcher (lint/lint.go).                                          *)
(***************************************************************************)
NewBlock(ctx, txt, raw, sel) ==
    [Context |-> IF ctx = <<>> THEN txt ELSE ctx, Text |-> txt, Raw |-> raw, Scope |-> sel]

\* core.File as lintText and the matchers use it.
NewFile(normedExt, checks, baseStyles, comments) ==
    [NormedExt |-> normedExt, Checks |-> checks, BaseStyles |-> baseStyles,
     Comments |-> comments, Sequences |-> <<>>, Alerts |-> <<>>]

\* File.QueryComments: the rule is switched off by an in-text directive.
QueryComments(f, name) == name \in f.Comments

\* Selector.Contains: every section of the rule's scope is one of the block's,
\* `text` being implied by every block.
Contains(blockScope, ruleScope) ==
    \A i \in 1..Len(ruleScope) :
        ruleScope[i] = "text" \/ \E j \in 1..Len(blockScope) : blockScope[j] = ruleScope[i]

\* File.AddAlert: the alert joins the file's list.
AddAlert(f, a) == [f EXCEPT !.Alerts = Append(@, a)]

RECURSIVE AddAlerts(_, _, _)
AddAlerts(f, alerts, i) ==
    IF i > Len(alerts) THEN f ELSE AddAlerts(AddAlert(f, alerts[i]), alerts, i + 1)

\* lintText, lines 229-233: the text a rule is given.
TextFor(f, chk, blk) ==
    IF chk.Code /\ f.NormedExt \in {".md", ".adoc", ".rst"} THEN blk.Raw ELSE blk.Text

\* Mutant: the global override is asked before the per-extension one.
Overlay_GlobalFirst(f, c, name, style) ==
    LET glob == IF name \in DOMAIN c.GChecks
                THEN (IF ~c.GChecks[name] THEN "continue" ELSE "run")
                ELSE "next"
        run1 == glob = "run"
        ext  == IF name \in DOMAIN f.Checks /\ ~run1
                THEN (IF ~f.Checks[name] THEN "continue" ELSE "run")
                ELSE "next"
        run2 == run1 \/ ext = "run"
    IN  /\ ext # "continue"
        /\ glob # "continue"
        /\ ~(~run2 /\ ~StringInSlice(style, f.BaseStyles))

\* lintText, lines 244-262: the overrides, with the code's `run` flag.  TRUE when
\* the loop body reaches the call of chk.Rule.
Overlay(f, c, name, style) ==
    LET ext  == IF name \in DOMAIN f.Checks
                THEN (IF ~f.Checks[name] THEN "continue" ELSE "run")
                ELSE "next"
        run1 == ext = "run"
        glob == IF name \in DOMAIN c.GChecks /\ ~run1
                THEN (IF ~c.GChecks[name] THEN "continue" ELSE "run")
                ELSE "next"
        run2 == run1 \/ glob = "run"
    IN  /\ ext # "continue"
        /\ glob # "continue"
        /\ ~(~run2 /\ ~StringInSlice(style, f.BaseStyles))

\* Mutant: the in-text directives are not asked.
Selected_NoComments(f, c, blk, name, chk) ==
    LET txt == TextFor(f, chk, blk)
    IN  IF txt = <<>> THEN FALSE
        ELSE IF chk.Level < c.MinAlertLevel \/ ~Contains(blk.Scope, chk.Scope) THEN FALSE
        ELSE Overlay(f, c, name, name[1])

\* lintText, lines 226-262: TRUE when no `continue` is taken for the rule.
Selected(f, c, blk, name, chk) ==
    LET style == name[1]
        txt   == TextFor(f, chk, blk)
    IN  IF QueryComments(f, name) \/ txt = <<>> THEN FALSE
        ELSE IF chk.Level < c.MinAlertLevel \/ ~Contains(blk.Scope, chk.Scope) THEN FALSE
        ELSE Overlay(f, c, name, style)

\* One iteration of lintText's loop; st = [f, invoked, panic].  A panic raised
\* inside chk.Rule is not recovered: it unwinds lintText.
LintTextStep(st, c, blk, name, chk) ==
    IF Selected(st.f, c, blk, name, chk)
    THEN LET res == Rule(chk, TextFor(st.f, chk, blk), st.f.Sequences)
         IN  [f |-> AddAlerts([st.f EXCEPT !.Sequences = res.seqs], res.alerts, 1),
              invoked |-> Append(st.invoked, name),
              panic |-> res.panic]
    ELSE st

RECURSIVE LintTextLoop(_, _, _, _, _, _)
LintTextLoop(st, c, all, blk, order, i) ==
    IF i > Len(order) \/ st.panic THEN st
    ELSE LintTextLoop(LintTextStep(st, c, blk, order[i], all[order[i]]), c, all, blk, order, i + 1)

\* lintText over the registry, visited in `order` (Go ranges over the map
\* AllChecks in an order of its own choosing).
lintText(f, c, all, blk, order) ==
    LintTextLoop([f |-> f, invoked |-> <<>>, panic |-> FALSE], c, all, blk, order, 1)

Orders(S) == {s \in [1..Cardinality(S) -> S] : \A x \in S : \E i \in 1..Cardinality(S) : s[i] = x}

\* The map of a rule file its loader ranges over (`either` or `swap`).
Ranged(content) == Get(content, "either", Get(content, "swap", {}))

\* strings.Replace(s, old, new, -1)
RECURSIVE Replace(_, _, _)
Replace(s, old, new) ==
    IF Len(s) < Len(old) THEN s
    ELSE IF Cut(s, 0, Len(old)) = old
    THEN new \o Replace(Cut(s, Len(old), Len(s)), old, new)
    ELSE Ch(s, 0) \o Replace(Cut(s, 1, Len(s)), old, new)

\* core.PrepText: the line ends of the text are made "\n".
PrepText(txt) == [i \in 1..Len(txt) |-> Replace(txt[i], "\r\n", "\n")]

\* f.Scanner.Text() + "\n"
WithLineEnd(line) ==
    IF line = <<>> THEN <<"\n">> ELSE [line EXCEPT ![Len(line)] = @ \o "\n"]

\* lintLines: every line of the file is one block of scope text; orders[i] is
\* the order in which the lintText call of line i visits the registry.  The
\* state is [f, invoked, panic].
RECURSIVE lintLines(_, _, _, _, _, _)
lintLines(st, c, all, lines, orders, i) ==
    IF i > Len(lines) \/ st.panic THEN st
    ELSE LET blk == NewBlock(<<>>, PrepText(WithLineEnd(lines[i])), <<>>, <<"text", "txt">>)
             res == lintText(st.f, c, all, blk, orders[i])
         IN  lintLines([f |-> res.f, invoked |-> st.invoked \o res.invoked,
                        panic |-> res.panic],
                       c, all, lines, orders, i + 1)

\* lintFile for a file of plain text (file.Format is neither "markup" nor
\* "code", or the configuration is Simple), given as its lines.
lintFile(all, c, lines, orders) ==
    lintLines([f |-> NewFile(".txt", <<>>, <<"S">>, {}), invoked |-> <<>>, panic |-> FALSE],
              c, all, lines, orders, 1)

(***************************************************************************)
(* Actions shared by the specifications of the check engine.               *)
(***************************************************************************)
\* What the loader loads is the sequence input.plan of rule files, each
\* [style, fName, content, builtin]; lpc counts the ones done.
LoadCheck ==
    /\ lpc <= Len(input.plan)
    /\ LET item == input.plan[lpc]
       IN  \E pairs \in Orders(Ranged(item.content)) :
              LET r == IF item.builtin
                       THEN addCheck(AllChecks, input.ruleToLevel, item.content,
                                     <<"vale", item.fName[1]>>, pairs)
                       ELSE loadCheck(AllChecks, input.ruleToLevel, item.style, item.fName,
                                      item.content, pairs)
              IN  /\ AllChecks' = r.all
                  /\ errs' = errs
                              \o [k \in 1..Len(r.handed) |-> <<item.style, item.fName, r.handed[k]>>]
                              \o (IF r.err = "" THEN <<>> ELSE <<<<item.style, item.fName, r.err>>>>)
                  /\ lghost' = [item |-> item, before |-> AllChecks, nerrs |-> Len(errs),
                                loaded |-> lghost.loaded \cup
                                    (IF lghost.item.fName # <<>> /\ AllChecks # lghost.before
                                     THEN {<<lghost.item.style, lghost.item.fName[1]>>} ELSE {})]
    /\ lpc' = lpc + 1
    /\ UNCHANGED <<input, fvars, pvars>>

\* The caller of lintText hands it the next block of the file of run `run`;
\* after a panic the program is gone.
LintText(run) ==
    /\ lpc > Len(input.plan)
    /\ pos[run] < Len(blocks)
    /\ ~call.panic
    /\ \E order \in Orders(DOMAIN AllChecks) :
          LET blk == blocks[pos[run] + 1]
              st  == lintText(file[run], cfg, AllChecks, blk, order)
          IN  /\ file' = [file EXCEPT ![run] = st.f]
              /\ call' = [run |-> run, blk |-> pos[run] + 1, invoked |-> st.invoked,
                          alerts |-> SubSeq(st.f.Alerts, Len(file[run].Alerts) + 1, Len(st.f.Alerts)),
                          before |-> file[run].Sequences, panic |-> st.panic]
    /\ pos' = [pos EXCEPT ![run] = @ + 1]
    /\ UNCHANGED <<cfg, blocks, lvars, pvars>>

NoCall == [run |-> 0, blk |-> 0, invoked |-> <<>>, alerts |-> <<>>, before |-> <<>>,
           panic |-> FALSE]

NoLoad == [item |-> [style |-> "", fName |-> <<>>, content |-> <<>>, builtin |-> FALSE],
           before |-> <<>>, nerrs |-> 0, loaded |-> {}]

IdlePipe ==
    /\ walk = 0 /\ wpc = <<>> /\ sem = 0 /\ filesChan = "open" /\ errc = <<>>
    /\ done = FALSE /\ lintpc = "idle" /\ linted = EmptyBag

IdleFile ==
    /\ file = <<>> /\ cfg = <<>> /\ blocks = <<>> /\ pos = <<>> /\ call = NoCall

(***************************************************************************)
(* SpecMatch: one Repetition or Occurrence rule file is loaded and one     *)
(* block of a plain-text file is linted.                                   *)
(***************************************************************************)
Words == {"the", "The", "best"}

RepetitionFile(max, ic) ==
    [extends |-> "repetition", message |-> "'%s' is repeated!", tokens |-> <<"the", "The", "best">>,
     max |-> max, ignorecase |-> ic]

OccurrenceFile(max) ==
    [extends |-> "occurrence", message |-> "Too many.", token |-> "the", max |-> max]

MatchFiles ==
    {RepetitionFile(m, ic) : m \in 0..MaxMax, ic \in BOOLEAN}
        \cup {OccurrenceFile(m) : m \in 0..MaxMax}

PlanItem(style, fName, content) ==
    [style |-> style, fName |-> fName, content |-> content, builtin |-> FALSE]

PlainConfig == [MinAlertLevel |-> 0, GChecks |-> <<>>]

InitMatch ==
    /\ AllChecks = <<>> /\ errs = <<>> /\ lpc = 1 /\ lghost = NoLoad
    /\ input \in {[plan |-> <<PlanItem("S", <<"R", "yml">>, c)>>, ruleToLevel |-> <<>>] :
                    c \in MatchFiles}
    /\ blocks \in {<<NewBlock(<<>>, t, <<>>, <<"text", "txt">>)>> : t \in SeqsUpTo(Words, MaxLen)}
    /\ file = [r \in {1} |-> NewFile(".txt", <<>>, <<"S">>, {})]
    /\ cfg = PlainConfig
    /\ pos = [r \in {1} |-> 0]
    /\ call = NoCall
    /\ IdlePipe

NextMatch == LoadCheck \/ LintText(1)

SpecMatch == InitMatch /\ [][NextMatch]_vars

\* The rule file and the text of the run, and the alerts of the linted block.
TheRule == input.plan[1].content
TheText == blocks[1].Text
Linted1 == lpc > Len(input.plan) /\ pos[1] = 1

\* The text's tokens as the rule compares them.
Key(i) == IF Get(TheRule, "ignorecase", FALSE) THEN ToLower(TheText[i]) ELSE TheText[i]

\* Some token occurs more than `max` times in a row (and at least twice).
LongRun ==
    LET n == IF TheRule.max >= 1 THEN TheRule.max ELSE 1
    IN  \E i \in 1..(Len(TheText) - n) : \A k \in 1..n : Key(i + k) = Key(i)

\* C4 (as claimed): a Repetition rule with limit max alerts on a block exactly
\* when the same token occurs consecutively more than max times there, so
\* `the the best` alerts under max = 1 and separated equal pairs never add up.
C4_RepetitionExactlyOnRun ==
    (Linted1 /\ TheRule.extends = "repetition") => ((call.alerts # <<>>) <=> LongRun)

TheMatches == {i \in 1..Len(TheText) : TheText[i] = TheRule.token}

FirstToLast ==
    LET lo == CHOOSE i \in TheMatches : \A j \in TheMatches : i <= j
        hi == CHOOSE i \in TheMatches : \A j \in TheMatches : j <= i
    IN  <<Offset(TheText, lo), Offset(TheText, hi) + Len(TheText[hi])>>

OccurrenceAsSpecified ==
    IF Cardinality(TheMatches) <= TheRule.max
    THEN call.alerts = <<>>
    ELSE /\ Len(call.alerts) = 1
         /\ call.alerts[1].Span = FirstToLast
         /\ call.alerts[1].Check = <<"S", "R">>

\* C6 (as claimed): for every max a rule file declares, 0 included, an
\* Occurrence rule gives no alert when the matches number <= max and exactly
\* one alert, from the first match's start to the last match's end, otherwise.
C6_OccurrenceEveryMax ==
    (Linted1 /\ TheRule.extends = "occurrence") => OccurrenceAsSpecified

(***************************************************************************)
(* SpecFile: a Consistency rule and a Conditional rule are loaded and the  *)
(* blocks of one plain-text file are linted in turn.                       *)
(***************************************************************************)
SpellFile ==
    [extends |-> "consistency", message |-> "Inconsistent spelling of '%s'",
     either |-> {<<"color", "colour">>}]

\* first: \b[A-Z]{3,5}\b   second: \(([A-Z]{3,5})\)
AbbrFile ==
    [extends |-> "conditional", message |-> "'%s' has no definition",
     first |-> Whole({"WHO", "USA"}) @@ ("(WHO)" :> [off |-> 1, str |-> "WHO", grp |-> 0, cap |-> ""]),
     second |-> [names |-> <<"1">>, toks |-> ("(WHO)" :> "WHO")],
     exceptions |-> <<"USA">>]

Corpus ==
    {<<"color">>, <<"colour">>, <<"met">>, <<"WHO">>, <<"(WHO)">>, <<"WHO", "(WHO)">>,
     <<"USA", "WHO">>, <<"colour", "color">>}

RECURSIVE BlockSeqs(_, _)
BlockSeqs(S, n) ==
    IF n = 0 THEN {<<>>} ELSE {Append(s, x) : s \in BlockSeqs(S, n - 1), x \in S}

InitFile ==
    /\ AllChecks = <<>> /\ errs = <<>> /\ lpc = 1 /\ lghost = NoLoad
    /\ input = [plan |-> <<PlanItem("A", <<"Spell", "yml">>, SpellFile),
                           PlanItem("A", <<"Abbr", "yml">>, AbbrFile)>>,
                ruleToLevel |-> <<>>]
    /\ blocks \in BlockSeqs({NewBlock(<<>>, t, <<>>, <<"text", "txt">>) : t \in Corpus}, MaxBlocks)
    /\ file = [r \in {1} |-> NewFile(".txt", <<>>, <<"A">>, {})]
    /\ cfg = PlainConfig
    /\ pos = [r \in {1} |-> 0]
    /\ call = NoCall
    /\ IdlePipe

SpecFile == InitFile /\ [][NextMatch]_vars

SpellName == <<"A", "Spell">>
AbbrName == <<"A", "Abbr">>

AlertsOfCheck(alerts, name) == {i \in 1..Len(alerts) : alerts[i].Check = name}

\* C3 (as claimed): over the blocks of one file a Consistency rule alerts at
\* most once for an `either` pair; blocks after the alert add no further one.
C3_ConsistencyOncePerFile ==
    \A r \in DOMAIN file : Cardinality(AlertsOfCheck(file[r].Alerts, SpellName)) <= 1

\* The substrings the consequent captured in blocks 1..k of the file.
Defined(k) ==
    UNION {{AbbrFile.second.toks[blocks[b].Text[i]] :
                i \in {j \in 1..Len(blocks[b].Text) :
                          blocks[b].Text[j] \in DOMAIN AbbrFile.second.toks}} : b \in 1..k}

InMemory(s) == \E i \in 1..Len(file[1].Sequences) : file[1].Sequences[i] = s

\* The antecedent matches of block k that are neither remembered nor excepted.
Undefined(k) ==
    {i \in 1..Len(blocks[k].Text) :
        /\ blocks[k].Text[i] \in DOMAIN AbbrFile.first
        /\ ~InMemory(AbbrFile.first[blocks[k].Text[i]].str)
        /\ AbbrFile.first[blocks[k].Text[i]].str \notin {"USA"}}

\* C5: a Conditional rule gives no alert for an antecedent whose text a
\* consequent captured in an earlier block of the file or in the same block,
\* and exactly one alert, at the match, for every antecedent that is neither in
\* the file's sequence memory nor among the rule's exceptions.
C5_ConditionalDefinedOrAlerted ==
    (call.run = 1 /\ AbbrName \in DOMAIN AllChecks) =>
        LET k == call.blk
            txt == blocks[k].Text
            mine == AlertsOfCheck(call.alerts, AbbrName)
        IN  /\ \A a \in mine : call.alerts[a].Arg \notin Defined(k)
            /\ Cardinality(mine) = Cardinality(Undefined(k))
            /\ \A i \in Undefined(k) : \E a \in mine :
                  /\ call.alerts[a].Arg = AbbrFile.first[txt[i]].str
                  /\ call.alerts[a].Span[1] = Offset(txt, i) + AbbrFile.first[txt[i]].off
                  /\ call.alerts[a].Span[2] = call.alerts[a].Span[1] + Len(call.alerts[a].Arg)

\* Block 2 uses WHO after block 1 defined it, and block 2 got no alert.
C5_Witness ==
    /\ call.run = 1 /\ call.blk = 2
    /\ blocks[1].Text = <<"(WHO)">> /\ blocks[2].Text = <<"USA", "WHO">>
    /\ \E i \in 1..Len(call.invoked) : call.invoked[i] = AbbrName
    /\ call.alerts = <<>>

(***************************************************************************)
(* NewManager as a whole: the registries that may result when every rule   *)
(* file of `plan` has been through loadCheck, one for each order in which  *)
(* the maps of the rule files are ranged over.                             *)
(***************************************************************************)
RECURSIVE LoadedFrom(_, _, _)
LoadedFrom(all, plan, i) ==
    IF i > Len(plan) THEN {all}
    ELSE UNION {LoadedFrom(loadCheck(all, <<>>, plan[i].style, plan[i].fName,
                                     plan[i].content, pairs).all,
                           plan, i + 1) :
                pairs \in Orders(Ranged(plan[i].content))}

Loaded(plan) == LoadedFrom(<<>>, plan, 1)

(***************************************************************************)
(* SpecDispatch: three rules are registered; one block of one file is      *)
(* linted under every configuration of overrides, base styles, in-text     *)
(* directives, minimum level and file format.                              *)
(***************************************************************************)
TermsFile == [extends |-> "existence", message |-> "Avoid '%s'", tokens |-> <<"the">>]

RawFile ==
    [extends |-> "existence", message |-> "Avoid '%s'", tokens |-> <<"raw">>,
     code |-> TRUE, level |-> "error", scope |-> <<"paragraph">>]

HintFile ==
    [extends |-> "existence", message |-> "Avoid '%s'", tokens |-> <<"best">>,
     level |-> "suggestion", scope |-> <<"sentence", "md">>]

TermsName == <<"A", "Terms">>
RawName == <<"B", "Raw">>
HintName == <<"B", "Hint">>

DispatchPlan ==
    <<PlanItem("A", <<"Terms", "yml">>, TermsFile), PlanItem("B", <<"Raw", "yml">>, RawFile),
      PlanItem("B", <<"Hint", "yml">>, HintFile)>>

\* The on/off maps a configuration may hold for the two overridden rules.
Overrides ==
    UNION {[D -> BOOLEAN] : D \in SUBSET {TermsName, RawName}}

DispatchBlocks ==
    {NewBlock(<<>>, <<"the", "best">>, <<>>, <<"sentence", "md">>),
     NewBlock(<<>>, <<"the", "best">>, <<"raw">>, <<"paragraph", "md">>),
     NewBlock(<<>>, <<"the", "best">>, <<"raw">>, <<"text", "md">>),
     NewBlock(<<>>, <<>>, <<"raw">>, <<"paragraph", "md">>)}

InitDispatch ==
    /\ input = [plan |-> DispatchPlan, ruleToLevel |-> <<>>]
    /\ AllChecks \in Loaded(DispatchPlan) /\ errs = <<>> /\ lpc = Len(DispatchPlan) + 1
    /\ lghost = NoLoad
    /\ blocks \in {<<b>> : b \in DispatchBlocks}
    /\ \E ext \in {".md", ".txt"}, checks \in Overrides,
          styles \in {<<>>, <<"A">>, <<"B">>, <<"A", "B">>},
          comments \in {{}, {TermsName}, {RawName}} :
            file = [r \in {1} |-> NewFile(ext, checks, styles, comments)]
    /\ \E min \in 0..2, gchecks \in Overrides :
            cfg = [MinAlertLevel |-> min, GChecks |-> gchecks]
    /\ pos = [r \in {1} |-> 0]
    /\ call = NoCall
    /\ IdlePipe

NextLint == \E r \in DOMAIN file : LintText(r)

SpecDispatch == InitDispatch /\ [][NextLint]_vars

Invoked(name) == \E i \in 1..Len(call.invoked) : call.invoked[i] = name

Sections(scope) == {scope[i] : i \in 1..Len(scope)}

\* The four conditions under which the dispatcher considers rule `name` for the
\* block of the last call.
Considered(name) ==
    LET chk == AllChecks[name]
        blk == blocks[call.blk]
        f   == file[call.run]
    IN  /\ chk.Level >= cfg.MinAlertLevel
        /\ (Sections(chk.Scope) \ {"text"}) \subseteq Sections(blk.Scope)
        /\ name \notin f.Comments
        /\ (IF chk.Code /\ f.NormedExt \in {".md", ".adoc", ".rst"} THEN blk.Raw ELSE blk.Text) # <<>>

PerExt(name) == file[call.run].Checks
Global(name) == cfg.GChecks
StyleActive(name) == \E i \in 1..Len(file[call.run].BaseStyles) : file[call.run].BaseStyles[i] = name[1]

\* C1 (as claimed): a rule's matcher is invoked on a block iff the rule is
\* considered (level, scope, no in-text disable, non-empty text) and it is
\* enabled by an override or its style is one of the file's base styles.
C1_InvokedIffEnabledOrStyle ==
    call.run = 1 =>
        \A name \in DOMAIN AllChecks :
            Invoked(name) <=>
                /\ Considered(name)
                /\ \/ (name \in DOMAIN PerExt(name) /\ PerExt(name)[name])
                   \/ (name \in DOMAIN Global(name) /\ Global(name)[name])
                   \/ StyleActive(name)

\* The override that decides: the per-extension entry, else the global entry,
\* else membership of the style in the file's base styles.
Resolved(name) ==
    IF name \in DOMAIN PerExt(name) THEN PerExt(name)[name]
    ELSE IF name \in DOMAIN Global(name) THEN Global(name)[name]
    ELSE StyleActive(name)

\* C1 (amended): a rule's matcher is invoked on a block iff the rule is
\* considered and the deciding override is on: the per-extension entry when
\* there is one, else the global entry when there is one, else the rule's style
\* being one of the file's base styles.  An explicit `off` wins over an active
\* style, and a per-extension `off` over a global `on`.
C1_InvokedIffResolved ==
    call.run = 1 =>
        \A name \in DOMAIN AllChecks : Invoked(name) <=> (Considered(name) /\ Resolved(name))

\* Terms is considered and its style is active, yet a per-extension `off` keeps
\* it from running while the unoverridden Hint of style B runs.
C1_Witness ==
    /\ call.run = 1 /\ Considered(TermsName) /\ StyleActive(TermsName)
    /\ TermsName \in DOMAIN PerExt(TermsName) /\ ~PerExt(TermsName)[TermsName]
    /\ ~Invoked(TermsName)
    /\ Invoked(HintName)

\* C2: for a considered rule the per-extension override, when present, decides
\* alone; otherwise the global override, when present, decides; otherwise the
\* rule runs only if its style is a base style of the file.
C2_ResolutionOrder ==
    call.run = 1 =>
        \A name \in {n \in DOMAIN AllChecks : Considered(n)} :
            /\ name \in DOMAIN PerExt(name) => (Invoked(name) <=> PerExt(name)[name])
            /\ (name \notin DOMAIN PerExt(name) /\ name \in DOMAIN Global(name)) =>
                    (Invoked(name) <=> Global(name)[name])
            /\ (name \notin DOMAIN PerExt(name) /\ name \notin DOMAIN Global(name)) =>
                    (Invoked(name) <=> StyleActive(name))

\* Raw runs on a per-extension `on` although the global entry is `off` and its
\* style B is not a base style; Terms is kept off per extension although it is
\* globally on.
C2_Witness ==
    /\ call.run = 1 /\ Considered(RawName) /\ Considered(TermsName)
    /\ RawName \in DOMAIN PerExt(RawName) /\ PerExt(RawName)[RawName]
    /\ RawName \in DOMAIN Global(RawName) /\ ~Global(RawName)[RawName]
    /\ ~StyleActive(RawName) /\ Invoked(RawName)
    /\ TermsName \in DOMAIN PerExt(TermsName) /\ ~PerExt(TermsName)[TermsName]
    /\ TermsName \in DOMAIN Global(TermsName) /\ Global(TermsName)[TermsName]
    /\ ~Invoked(TermsName)

(***************************************************************************)
(* SpecLoad: NewManager under every configuration of global styles,        *)
(* per-syntax styles and individual checks, over a styles path with two    *)
(* style directories.                                                      *)
(***************************************************************************)
ManyFile == [extends |-> "occurrence", message |-> "Too many.", token |-> "the", max |-> 0]

defaultRules == <<"Repetition">>

Asset(chk) == RepetitionFile(0, TRUE)

\* The styles path: directory -> its files in the order filepath.Walk visits them.
Disk ==
    [A |-> <<[fName |-> <<"Spell", "yml">>, content |-> SpellFile],
             [fName |-> <<"Terms", "yml">>, content |-> TermsFile],
             [fName |-> <<"notes", "md">>, content |-> <<>>],
             [fName |-> <<"yml">>, content |-> TermsFile]>>,
     B |-> <<[fName |-> <<"Abbr", "yml">>, content |-> AbbrFile],
             [fName |-> <<"Many", "yml">>, content |-> ManyFile],
             [fName |-> <<"Torn", "yml">>, content |-> [unreadable |-> TRUE]]>>]

\* loadDefaultRules: one addCheck per built-in rule.
DefaultItems ==
    [i \in 1..Len(defaultRules) |->
        [style |-> "vale", fName |-> <<defaultRules[i], "yml">>,
         content |-> Asset(defaultRules[i]), builtin |-> TRUE]]

\* loadExternalStyle: one loadCheck per file of the directory.
StyleItems(style) ==
    [i \in 1..Len(Disk[style]) |-> PlanItem(style, Disk[style][i].fName, Disk[style][i].content)]

\* NewManager, lines 51-59; st = [plan, loadedStyles].
RECURSIVE GlobalStyles(_, _, _)
GlobalStyles(st, styles, i) ==
    IF i > Len(styles) THEN st
    ELSE GlobalStyles(
            IF styles[i] = "vale" THEN st
            ELSE [plan |-> st.plan \o StyleItems(styles[i]),
                  loadedStyles |-> Append(st.loadedStyles, styles[i])],
            styles, i + 1)

\* NewManager, lines 61-71, over the per-syntax lists flattened in map order.
RECURSIVE SyntaxStyles(_, _, _)
SyntaxStyles(st, styles, i) ==
    IF i > Len(styles) THEN st
    ELSE SyntaxStyles(
            IF ~StringInSlice(styles[i], st.loadedStyles)
            THEN [plan |-> st.plan \o StyleItems(styles[i]),
                  loadedStyles |-> Append(st.loadedStyles, styles[i])]
            ELSE st,
            styles, i + 1)

FileOf(style, rule) ==
    CHOOSE e \in {Disk[style][i] : i \in 1..Len(Disk[style])} : e.fName = <<rule, "yml">>

\* NewManager, lines 73-87: rules named individually (a name is its parts).
RECURSIVE SingleChecks(_, _, _)
SingleChecks(st, checks, i) ==
    IF i > Len(checks) THEN st
    ELSE SingleChecks(
            IF Len(checks[i]) >= 2 /\ ~StringInSlice(checks[i][1], st.loadedStyles)
            THEN [st EXCEPT !.plan = Append(@, PlanItem(checks[i][1], <<checks[i][2], "yml">>,
                                                     FileOf(checks[i][1], checks[i][2]).content))]
            ELSE st,
            checks, i + 1)

\* The calls of addCheck / loadCheck NewManager makes, in order.
NewManager(config) ==
    IF config.StylesPath = "" THEN DefaultItems
    ELSE LET st0 == [plan |-> DefaultItems, loadedStyles |-> <<"vale">>]
             st1 == GlobalStyles(st0, config.GBaseStyles, 1)
             st2 == SyntaxStyles(st1, config.SBaseStyles, 1)
         IN  SingleChecks(st2, config.Checks, 1).plan

InitLoad ==
    /\ AllChecks = <<>> /\ errs = <<>> /\ lpc = 1 /\ lghost = NoLoad
    /\ \E path \in {"", "styles"}, gbase \in SeqsUpTo({"vale", "A", "B"}, MaxStyles),
          sbase \in {<<>>, <<"B">>, <<"A", "B">>},
          checks \in {<<>>, <<<<"A", "Terms">>>>, <<<<"nodot">>, <<"B", "Abbr">>>>} :
            input = [plan |-> NewManager([StylesPath |-> path, GBaseStyles |-> gbase,
                                          SBaseStyles |-> sbase, Checks |-> checks]),
                     ruleToLevel |-> <<>>,
                     config |-> [StylesPath |-> path, GBaseStyles |-> gbase,
                                 SBaseStyles |-> sbase, Checks |-> checks]]
    /\ IdleFile
    /\ IdlePipe

\* The last step left its item behind in lghost; one more step records it.
NextLoad == LoadCheck

SpecLoad == InitLoad /\ [][NextLoad]_vars

LastName == <<lghost.item.style, lghost.item.fName[1]>>

\* C7 (as claimed): loading a rule file whose rule was already loaded gives
\* exactly one duplicate-check error and leaves the registry as it was, with
\* one rule under the name; for every rule kind, Consistency included.
C7_DuplicateRejectedOnce ==
    (lghost.item.fName # <<>> /\ LastName \in lghost.loaded) =>
        /\ Len(errs) = lghost.nerrs + 1
        /\ errs[Len(errs)] = <<lghost.item.style, lghost.item.fName, "duplicate check">>
        /\ AllChecks = lghost.before
        /\ LastName \in DOMAIN AllChecks

(***************************************************************************)
(* SpecTwice: the same file is linted twice (runs 1 and 2) under the same  *)
(* configuration and registry; each lintText call visits the registry in   *)
(* an order the map iteration picks.                                       *)
(***************************************************************************)
\* first: \bWHO\b   second: \(([a-z]+)\), which no token of the corpus matches
AcrFile ==
    [extends |-> "conditional", message |-> "Define '%s'",
     first |-> Whole({"WHO"}) @@ ("(WHO)" :> [off |-> 1, str |-> "WHO", grp |-> 0, cap |-> ""]),
     second |-> [names |-> <<"1">>, toks |-> <<>>]]

TwicePlan ==
    <<PlanItem("A", <<"Spell", "yml">>, SpellFile), PlanItem("A", <<"Abbr", "yml">>, AbbrFile),
      PlanItem("B", <<"Acr", "yml">>, AcrFile)>>

InitTwice ==
    /\ input = [plan |-> TwicePlan, ruleToLevel |-> <<>>]
    /\ AllChecks \in Loaded(TwicePlan) /\ errs = <<>> /\ lpc = Len(TwicePlan) + 1
    /\ lghost = NoLoad
    /\ blocks \in BlockSeqs({NewBlock(<<>>, t, <<>>, <<"text", "txt">>) : t \in Corpus},
                            MaxBlocks - 1)
    /\ file = [r \in {1, 2} |-> NewFile(".txt", <<>>, <<"A", "B">>, {})]
    /\ cfg = PlainConfig
    /\ pos = [r \in {1, 2} |-> 0]
    /\ call = NoCall
    /\ IdlePipe

SpecTwice == InitTwice /\ [][NextLint]_vars

\* C8 (as claimed): linting the same file twice under the same configuration
\* and registry yields identical alert lists, whatever order lintText visits
\* the rules in.
C8_SameAlertsBothRuns ==
    (\A r \in DOMAIN file : pos[r] = Len(blocks)) =>
        \A r1, r2 \in DOMAIN file : file[r1].Alerts = file[r2].Alerts

(***************************************************************************)
(* The file pipeline (lint/lint.go): Lint, the walker goroutine of         *)
(* lintFiles, one worker goroutine per accepted file, and the goroutine    *)
(* that closes the result channel.                                         *)
(*                                                                         *)
(* A walk entry is [id, first, isDir, match]: id stands for the path (ids  *)
(* grow in lexical order), first is the first character of the base name,  *)
(* match is glob.Match(path).  The results Lint appends to `linted` are    *)
(* kept as a bag of paths: the order in which the workers' sends arrive,   *)
(* and the final sort.Sort / filepath.ToSlash, which only reorder and      *)
(* rewrite them, are not modelled.                                         *)
(***************************************************************************)
PoolSize == 5

Entry(id, first, isDir, match) == [id |-> id, first |-> first, isDir |-> isDir, match |-> match]

\* docs/: the directory itself, a hidden file, a draft, an image, a hidden
\* directory, and NumFiles Markdown files (ids 1..NumFiles).
DocsEntries ==
    <<Entry(100, "d", TRUE, TRUE), Entry(101, ".", FALSE, TRUE), Entry(102, "_", FALSE, TRUE)>>
    \o [i \in 1..NumFiles |-> Entry(i, "f", FALSE, TRUE)]
    \o <<Entry(103, "i", FALSE, FALSE), Entry(104, ".", TRUE, TRUE)>>

\* Lint's input: a directory, a path that does not exist, a single file.
Roots ==
    <<[exists |-> TRUE, entries |-> DocsEntries],
      [exists |-> FALSE, entries |-> <<>>],
      [exists |-> TRUE, entries |-> <<Entry(200, "R", FALSE, TRUE)>>]>>

HasAnyPrefix(e, ignore) == e.first \in ignore

\* lintFiles, lines 109-113: the walk callback goes on to schedule a worker.
Accepted(e) == ~e.isDir /\ e.match /\ ~HasAnyPrefix(e, {".", "_"})

\* Mutant: the wait group admits any number of workers.
CanAdd_Unbounded(n) == TRUE

\* SizedWaitGroup.Add blocks while the pool is full.
CanAdd(n) == n < PoolSize

\* Mutant: the closing goroutine goes on while one worker is left.
CanClose_OneLeft(n) == n <= 1

\* Mutant: the closing goroutine does not wait for the workers.
CanClose_NoWait(n) == TRUE

\* WaitGroup.Wait returns when every worker has called Done.
CanClose(n) == n = 0

Active == {i \in 1..Len(wpc) : wpc[i].pc # "exit"}

\* Lint, lines 78-82: the next input path; one that does not exist is skipped,
\* for another lintFiles starts the walker goroutine and Lint starts to drain.
LintNext ==
    /\ lintpc.pc = "loop" /\ lintpc.src <= Len(input.roots)
    /\ IF ~input.roots[lintpc.src].exists
       THEN /\ lintpc' = [lintpc EXCEPT !.src = @ + 1]
            /\ UNCHANGED <<walk, wpc, sem, filesChan, errc>>
       ELSE /\ lintpc' = [lintpc EXCEPT !.pc = "range"]
            /\ walk' = [pc |-> "walking", idx |-> 1, closer |-> "none", err |-> ""]
            /\ wpc' = <<>> /\ sem' = 0 /\ filesChan' = "open" /\ errc' = <<>>
    /\ UNCHANGED <<done, linted, lvars, fvars>>

\* lintFiles, lines 108-129: the walk callback for the next entry.
WalkVisit ==
    /\ walk.pc = "walking" /\ walk.idx <= Len(input.roots[lintpc.src].entries)
    /\ LET e == input.roots[lintpc.src].entries[walk.idx]
       IN  IF ~Accepted(e)
           THEN /\ walk' = [walk EXCEPT !.idx = @ + 1]
                /\ UNCHANGED <<wpc, sem>>
           ELSE /\ CanAdd(sem)
                /\ sem' = sem + 1
                /\ wpc' = Append(wpc, [fp |-> e.id, pc |-> "lint"])
                /\ walk' = IF done THEN [walk EXCEPT !.pc = "walked", !.err = "walk canceled"]
                           ELSE [walk EXCEPT !.idx = @ + 1]
    /\ UNCHANGED <<filesChan, errc, done, lintpc, linted, lvars, fvars>>

\* lintFiles, lines 130-136: Walk has returned; the closing goroutine starts
\* and the walker sends Walk's error on the buffered channel.
WalkReturn ==
    /\ \/ walk.pc = "walking" /\ walk.idx > Len(input.roots[lintpc.src].entries)
       \/ walk.pc = "walked"
    /\ Len(errc) < 1
    /\ errc' = Append(errc, walk.err)
    /\ walk' = [walk EXCEPT !.pc = "exited", !.closer = "wait"]
    /\ UNCHANGED <<wpc, sem, filesChan, done, lintpc, linted, lvars, fvars>>

\* lintFiles, lines 132-135.
CloserClose ==
    /\ walk.pc = "exited" /\ walk.closer = "wait"
    /\ CanClose(sem)
    /\ filesChan' = "closed"
    /\ walk' = [walk EXCEPT !.closer = "exited"]
    /\ UNCHANGED <<wpc, sem, errc, done, lintpc, linted, lvars, fvars>>

\* lintFile(fp) panics: a matcher raises a run-time panic on the file's text.
Panics(fp, orders) ==
    /\ fp \in DOMAIN input.texts
    /\ lintFile(AllChecks, PlainConfig, input.texts[fp], orders).panic

\* The orders in which the lintText calls of file fp may visit the registry.
LineOrders(fp) ==
    IF fp \in DOMAIN input.texts
    THEN [1..Len(input.texts[fp]) -> Orders(DOMAIN AllChecks)]
    ELSE {<<>>}

\* lintFiles, line 117: the worker evaluates l.lintFile(fp).
WorkerLint(i) ==
    /\ i \in 1..Len(wpc) /\ wpc[i].pc = "lint"
    /\ \E orders \in LineOrders(wpc[i].fp) : ~Panics(wpc[i].fp, orders)
    /\ wpc' = [wpc EXCEPT ![i].pc = "select"]
    /\ UNCHANGED <<walk, sem, filesChan, errc, done, lintpc, linted, lvars, fvars>>

\* lintFiles, line 117: l.lintFile(fp) panics.  Nothing on the goroutine's
\* stack recovers, so the Go runtime ends the program: every goroutine that
\* has not returned, Lint's caller included, is gone.
WorkerPanic(i) ==
    /\ i \in 1..Len(wpc) /\ wpc[i].pc = "lint"
    /\ \E orders \in LineOrders(wpc[i].fp) : Panics(wpc[i].fp, orders)
    /\ wpc' = [j \in 1..Len(wpc) |->
                 IF j = i THEN [wpc[j] EXCEPT !.pc = "panicked"]
                 ELSE IF wpc[j].pc = "exit" THEN wpc[j]
                 ELSE [wpc[j] EXCEPT !.pc = "killed"]]
    /\ walk' = [walk EXCEPT !.pc = "killed", !.closer = "killed"]
    /\ lintpc' = [lintpc EXCEPT !.pc = "killed"]
    /\ UNCHANGED <<sem, filesChan, errc, done, linted, lvars, fvars>>

\* lintFiles, lines 116-119 with Lint, lines 83-88: the select.  The send meets
\* Lint's receive, which appends the file; or done is closed and the result is
\* dropped; a send on the closed channel panics.
WorkerSelect(i) ==
    /\ i \in 1..Len(wpc) /\ wpc[i].pc = "select"
    /\ \/ /\ filesChan = "open" /\ lintpc.pc = "range"
          /\ linted' = linted (+) SetToBag({wpc[i].fp})
          /\ wpc' = [wpc EXCEPT ![i].pc = "done"]
       \/ /\ done
          /\ wpc' = [wpc EXCEPT ![i].pc = "done"]
          /\ UNCHANGED linted
       \/ /\ filesChan = "closed" /\ ~done
          /\ wpc' = [wpc EXCEPT ![i].pc = "panic"]
          /\ UNCHANGED linted
    /\ UNCHANGED <<walk, sem, filesChan, errc, done, lintpc, lvars, fvars>>

\* lintFiles, line 120: wg.Done().
WorkerDone(i) ==
    /\ i \in 1..Len(wpc) /\ wpc[i].pc = "done"
    /\ wpc' = [wpc EXCEPT ![i].pc = "exit"]
    /\ sem' = sem - 1
    /\ UNCHANGED <<walk, filesChan, errc, done, lintpc, linted, lvars, fvars>>

\* Lint, line 83: the range loop ends when the channel is closed.
LintRangeEnd ==
    /\ lintpc.pc = "range" /\ filesChan = "closed"
    /\ lintpc' = [lintpc EXCEPT !.pc = "errc"]
    /\ UNCHANGED <<walk, wpc, sem, filesChan, errc, done, linted, lvars, fvars>>

\* Lint, lines 89-91: the walk's error; a non-nil one ends Lint (and the
\* deferred close(done) runs).
LintErrc ==
    /\ lintpc.pc = "errc" /\ errc # <<>>
    /\ errc' = Tail(errc)
    /\ IF Head(errc) # ""
       THEN /\ lintpc' = [lintpc EXCEPT !.pc = "returned", !.err = Head(errc)]
            /\ linted' = EmptyBag
            /\ done' = TRUE
       ELSE /\ lintpc' = [lintpc EXCEPT !.pc = "loop", !.src = @ + 1]
            /\ UNCHANGED <<linted, done>>
    /\ UNCHANGED <<walk, wpc, sem, filesChan, lvars, fvars>>

\* Lint, lines 94-97 and 76: return the list; the deferred close(done) runs.
LintReturn ==
    /\ lintpc.pc = "loop" /\ lintpc.src > Len(input.roots)
    /\ lintpc' = [lintpc EXCEPT !.pc = "returned"]
    /\ done' = TRUE
    /\ UNCHANGED <<walk, wpc, sem, filesChan, errc, linted, lvars, fvars>>

InitPipe ==
    /\ AllChecks = <<>> /\ errs = <<>> /\ lpc = 1 /\ lghost = NoLoad
    /\ input = [plan |-> <<>>, ruleToLevel |-> <<>>, roots |-> Roots, texts |-> <<>>]
    /\ file = <<>> /\ blocks = <<>> /\ pos = <<>> /\ call = NoCall
    /\ cfg = <<>>
    /\ walk = [pc |-> "idle", idx |-> 1, closer |-> "none", err |-> ""]
    /\ wpc = <<>> /\ sem = 0 /\ filesChan = "open" /\ errc = <<>>
    /\ done = FALSE
    /\ lintpc = [pc |-> "loop", src |-> 1, err |-> ""]
    /\ linted = EmptyBag

NextPipe ==
    \/ LintNext \/ WalkVisit \/ WalkReturn \/ CloserClose
    \/ \E i \in 1..(NumFiles + 1) : WorkerLint(i) \/ WorkerSelect(i) \/ WorkerDone(i)
    \/ LintRangeEnd \/ LintErrc \/ LintReturn

SpecPipe == InitPipe /\ [][NextPipe]_vars

\* The scheduler runs a goroutine that can take a step.
FairPipe == SpecPipe /\ WF_vars(NextPipe)

\* The entry the walk callback is about to visit, if any.
AtEntry == walk.pc = "walking" /\ walk.idx <= Len(input.roots[lintpc.src].entries)

NextEntry == input.roots[lintpc.src].entries[walk.idx]

\* C9: in lintFiles at most 5 workers are scheduled and have not yet called
\* Done; these are exactly the slots the wait group holds; every worker was
\* given an accepted file and no file was given to two workers; and with 5
\* workers in flight the walker, standing at a file it accepts, cannot
\* schedule a sixth.
C9_AtMostFiveWorkers ==
    /\ Cardinality(Active) <= PoolSize
    /\ sem = Cardinality(Active)
    /\ \A i, j \in 1..Len(wpc) : wpc[i].fp = wpc[j].fp => i = j
    /\ lintpc.pc = "range" =>
          \A i \in 1..Len(wpc) :
              \E k \in 1..Len(input.roots[lintpc.src].entries) :
                  LET e == input.roots[lintpc.src].entries[k]
                  IN  e.id = wpc[i].fp /\ Accepted(e) /\ k < walk.idx + 1
    /\ (AtEntry /\ Accepted(NextEntry) /\ Cardinality(Active) = PoolSize)
          => ~ENABLED WalkVisit

\* The pool is full and the walker stands at a further file it accepts.
C9_Witness ==
    /\ AtEntry /\ Accepted(NextEntry)
    /\ Cardinality(Active) = PoolSize
    /\ \E i \in Active : wpc[i].pc = "select"

\* The files the walks of the existing input paths accept.
AcceptedIds ==
    UNION {{input.roots[r].entries[k].id :
                k \in {k \in 1..Len(input.roots[r].entries) : Accepted(input.roots[r].entries[k])}} :
           r \in {r \in 1..Len(input.roots) : input.roots[r].exists}}

ExactlyOncePerFile ==
    /\ BagToSet(linted) = AcceptedIds
    /\ \A id \in AcceptedIds : CopiesIn(id, linted) = 1

\* C10: with no cancellation Lint eventually returns, and what it returns
\* holds exactly one result for every file the walks accepted, and no error.
C10_LintReturnsEveryFile ==
    /\ <>(lintpc.pc = "returned")
    /\ [](lintpc.pc = "returned" => (lintpc.err = "" /\ ExactlyOncePerFile))

\* Lint has returned the results of more files than the pool has workers.
C10_Witness ==
    /\ lintpc.pc = "returned"
    /\ BagCardinality(linted) > PoolSize
    /\ ExactlyOncePerFile

(***************************************************************************)
(* Substitution rule files.  The patterns a `swap` is written with:        *)
(*   PFoo      foo            PNonCap   (?:a|b)c       PEscaped  f\(x       *)
(*   PBoth     (?:a)|\(b      PCapture  (a)b?:c        PCapOnly  (a)c       *)
(*   PEscQ     a\(?:b         POpen     (?:a                               *)
(***************************************************************************)
Hit(off, str, caps) == [off |-> off, str |-> str, caps |-> caps]

PFoo == [pieces |-> <<"foo">>, m |-> ("foo" :> Hit(0, "foo", <<>>))]

PNonCap ==
    [pieces |-> <<"(?:", "a|b", ")", "c">>,
     m |-> ("ac" :> Hit(0, "ac", <<>>)) @@ ("bc" :> Hit(0, "bc", <<>>))]

PEscaped == [pieces |-> <<"f", "\\(", "x">>, m |-> ("f(x" :> Hit(0, "f(x", <<>>))]

PBoth ==
    [pieces |-> <<"(?:", "a", ")", "|", "\\(", "b">>,
     m |-> ("a" :> Hit(0, "a", <<>>)) @@ ("x(b" :> Hit(1, "(b", <<>>))]

PCapture ==
    [pieces |-> <<"(", "a", ")", "b", "?:", "c">>,
     m |-> ("ab:c" :> Hit(0, "ab:c", <<[k |-> 1, off |-> 0, str |-> "a"]>>))
           @@ ("a:c" :> Hit(0, "a:c", <<[k |-> 1, off |-> 0, str |-> "a"]>>))]

PCapOnly ==
    [pieces |-> <<"(", "a", ")", "c">>,
     m |-> ("ac" :> Hit(0, "ac", <<[k |-> 1, off |-> 0, str |-> "a"]>>))]

PEscQ ==
    [pieces |-> <<"a", "\\(", "?:", "b">>,
     m |-> ("a(:b" :> Hit(0, "a(:b", <<>>)) @@ ("a:b" :> Hit(0, "a:b", <<>>))]

POpen == [pieces |-> <<"(?:", "a">>, m |-> <<>>]

Patterns == {PFoo, PNonCap, PEscaped, PBoth, PCapture, PCapOnly, PEscQ, POpen}

SwapFile(swap) ==
    [extends |-> "substitution", message |-> "Use '%s' instead of '%s'", swap |-> swap]

(***************************************************************************)
(* SpecPanic: Lint over one directory of plain-text files with one         *)
(* Substitution rule registered, whose pattern (a)b?:c passes the loader's *)
(* count of parentheses and declares a capturing group of its own.         *)
(***************************************************************************)
NumPanicFiles == 3

PanicPlan == <<PlanItem("S", <<"Swap", "yml">>, SwapFile({<<PCapture, "x">>}))>>

PanicRoots ==
    <<[exists |-> TRUE,
       entries |-> <<Entry(100, "d", TRUE, TRUE)>>
                   \o [i \in 1..NumPanicFiles |-> Entry(i, "f", FALSE, TRUE)]]>>

InitPanic ==
    /\ AllChecks \in Loaded(PanicPlan) /\ errs = <<>> /\ lpc = Len(PanicPlan) + 1
    /\ lghost = NoLoad
    /\ \E t \in {<<<<"ab:c">>>>, <<<<"foo">>, <<"foo", "a:c">>>>, <<<<"foo">>>>,
                  <<<<"x">>, <<>>>>} :
          input = [plan |-> PanicPlan, ruleToLevel |-> <<>>, roots |-> PanicRoots,
                   texts |-> [i \in 1..NumPanicFiles |->
                                IF i = 2 THEN t ELSE <<<<"foo">>>>]]
    /\ file = <<>> /\ blocks = <<>> /\ pos = <<>> /\ call = NoCall
    /\ cfg = <<>>
    /\ walk = [pc |-> "idle", idx |-> 1, closer |-> "none", err |-> ""]
    /\ wpc = <<>> /\ sem = 0 /\ filesChan = "open" /\ errc = <<>>
    /\ done = FALSE
    /\ lintpc = [pc |-> "loop", src |-> 1, err |-> ""]
    /\ linted = EmptyBag

NextPanic == NextPipe \/ \E i \in 1..NumPanicFiles : WorkerPanic(i)

SpecPanic == InitPanic /\ [][NextPanic]_vars

\* C11 (as claimed): a panic raised while one file is linted stays in that
\* file's worker: it ends neither Lint nor the worker of another file, which
\* go on to publish their results.
C11_FailureStaysInWorker ==
    /\ lintpc.pc # "killed"
    /\ \A i \in 1..Len(wpc) : wpc[i].pc # "killed"

(***************************************************************************)
(* SpecSwap: one Substitution rule file with up to MaxSwaps patterns is    *)
(* loaded (its `swap` map ranged over in every order) and one block of a   *)
(* plain-text file is linted.                                              *)
(***************************************************************************)
MaxSwaps == 2      \* most entries of a `swap` map
MaxSwapLen == 2    \* longest block text (in tokens) given to a Substitution rule

SwapPairs == {<<p, "x">> : p \in Patterns} \cup {<<PFoo, "foo">>}

\* The `swap` maps: no pattern is the key of two entries.
SwapMaps ==
    {sw \in SUBSET SwapPairs :
        /\ Cardinality(sw) \in 1..MaxSwaps
        /\ \A a, b \in sw : a[1] = b[1] => a = b}

SwapWords == {"foo", "ac", "ab:c", "x(b", "a:b"}

SwapName == <<"S", "Swap">>

InitSwap ==
    /\ AllChecks = <<>> /\ errs = <<>> /\ lpc = 1 /\ lghost = NoLoad
    /\ input \in {[plan |-> <<PlanItem("S", <<"Swap", "yml">>, SwapFile(sw))>>,
                    ruleToLevel |-> <<>>] : sw \in SwapMaps}
    /\ blocks \in {<<NewBlock(<<>>, t, <<>>, <<"text", "txt">>)>> :
                        t \in SeqsUpTo(SwapWords, MaxSwapLen) \ {<<>>}}
    /\ file = [r \in {1} |-> NewFile(".txt", <<>>, <<"S">>, {})]
    /\ cfg = PlainConfig
    /\ pos = [r \in {1} |-> 0]
    /\ call = NoCall
    /\ IdlePipe

SpecSwap == InitSwap /\ [][NextMatch]_vars

\* C12 (as claimed): of a registered Substitution rule, the patterns taken
\* into the expression are exactly those whose count of `(` equals the count
\* of `?:` plus the count of `\(`, and each of them has one numbered group,
\* whose number is the index of its replacement.
C12_RefusedExactlyOnSum ==
    (lpc > Len(input.plan) /\ SwapName \in DOMAIN AllChecks) =>
        LET fn == AllChecks[SwapName].Rule
            balanced(pat) == Count(pat.pieces, "(")
                                = Count(pat.pieces, "?:") + Count(pat.pieces, "\\(")
            accepted == {pr \in input.plan[1].content.swap : balanced(pr[1])}
        IN  /\ Len(fn.aux) = Cardinality(accepted)
            /\ \A pr \in accepted :
                  \E n \in 1..Len(fn.aux) :
                      /\ fn.aux[n] = pr[2]
                      /\ \A tok \in DOMAIN pr[1].m :
                            /\ tok \in DOMAIN fn.re.m
                            /\ fn.re.m[tok].groups
                                 = <<[n |-> n, off |-> 0, str |-> pr[1].m[tok].str]>>

IsPrefix(a, b) == Len(a) <= Len(b) /\ SubSeq(b, 1, Len(a)) = a

\* C13: a file's sequence memory only grows.  Every rule of the registry,
\* applied to any block with the memory a file has reached, leaves that memory
\* as a prefix of what it returns; every lintText call leaves the memory of
\* its file as a prefix of the new one, leaves every other file as it was,
\* and its outcome is the one lintText computes from its own file alone.
C13_SequencesGrowPerFile ==
    /\ [](\A r \in DOMAIN file : \A name \in DOMAIN AllChecks : \A b \in 1..Len(blocks) :
            IsPrefix(file[r].Sequences,
                     Rule(AllChecks[name], blocks[b].Text, file[r].Sequences).seqs))
    /\ [][\A r \in DOMAIN file :
            /\ IsPrefix(file[r].Sequences, file'[r].Sequences)
            /\ r # call'.run => file'[r] = file[r]
            /\ r = call'.run =>
                  \E order \in Orders(DOMAIN AllChecks) :
                      file'[r] = lintText(file[r], cfg, AllChecks, blocks[call'.blk], order).f]_vars

\* The second file's memory has grown from a non-empty one while the first
\* file's memory holds something else.
C13_Witness ==
    /\ call.run = 2 /\ call.before # <<>>
    /\ Len(file[2].Sequences) > Len(call.before)
    /\ file[1].Sequences # <<>>
    /\ file[1].Sequences # file[2].Sequences

\* C14: the result channel of a lintFiles call is closed only when every
\* worker the walk scheduled has called Done; no worker sends on the closed
\* channel; the step that closes it finds it open and is the one step of the
\* closing goroutine; and once Lint ranges over the channel it is closed in
\* the end.
C14_ClosedOnceAfterWorkers ==
    /\ [](filesChan = "closed" => (Active = {} /\ sem = 0))
    /\ [](\A i \in 1..Len(wpc) : wpc[i].pc # "panic")
    /\ [][(filesChan' = "closed" /\ (filesChan # "closed" \/ walk'.closer # walk.closer))
            => /\ filesChan = "open"
               /\ walk.closer = "wait" /\ walk'.closer = "exited"
               /\ Active = {}]_vars
    /\ ((lintpc.pc = "range") ~> (filesChan = "closed"))

\* The channel of the directory's walk is closed and all its workers, more
\* than the pool holds at a time, have returned.
C14_Witness ==
    /\ filesChan = "closed" /\ lintpc.pc = "range"
    /\ Len(wpc) > PoolSize
    /\ \A i \in 1..Len(wpc) : wpc[i].pc = "exit"

(***************************************************************************)
(* SpecSpan: one rule file of any kind is loaded and one block of a        *)
(* plain-text file is linted.                                              *)
(***************************************************************************)
MaxSpanLen == 4    \* longest block text (in tokens) of SpecSpan

\* match: The
CapFile == [extends |-> "capitalization", message |-> "'%s' should be capitalized",
            match |-> "The"]

\* Existence rules: without regard to case, inside words, after the raw
\* literal `the `, and with no tokens at all.
FoldFile ==
    [extends |-> "existence", message |-> "Avoid '%s'", tokens |-> <<"the">>,
     ignorecase |-> TRUE]

InnerFile ==
    [extends |-> "existence", message |-> "Avoid '%s'", tokens |-> <<"the">>,
     nonword |-> TRUE]

AfterFile ==
    [extends |-> "existence", message |-> "Avoid '%s'", tokens |-> <<"color", "colour">>,
     raw |-> <<"the ">>]

BlankFile == [extends |-> "existence", message |-> "Avoid '%s'"]

\* An Occurrence rule without `token`, and one whose token does not compile.
AnyFile == [extends |-> "occurrence", message |-> "Too many.", max |-> 1]

BrokenFile == [extends |-> "occurrence", message |-> "Too many.", token |-> "(", max |-> 1]

\* Capitalization rules with a named predicate and without `match`.
LowerFile == [extends |-> "capitalization", message |-> "'%s' should be in lower case",
              match |-> "$lower"]

TitleFile == [extends |-> "capitalization", message |-> "'%s' should be in title case",
              match |-> "$title", style |-> "Chicago"]

LooseFile == [extends |-> "capitalization", message |-> "'%s' should be capitalized"]

\* A Conditional rule without `first`.
OpenFile ==
    [extends |-> "conditional", message |-> "'%s' has no definition",
     second |-> [names |-> <<"1">>, toks |-> ("(WHO)" :> "WHO")]]

\* Consistency rules: without regard to case, inside words, and with a key
\* whose expression does not compile.
AnyCaseFile ==
    [extends |-> "consistency", message |-> "Inconsistent spelling of '%s'",
     either |-> {<<"color", "colour">>}, ignorecase |-> TRUE]

WithinFile ==
    [extends |-> "consistency", message |-> "Inconsistent spelling of '%s'",
     either |-> {<<"color", "colour">>}, nonword |-> TRUE]

UnclosedFile ==
    [extends |-> "consistency", message |-> "Inconsistent spelling of '%s'",
     either |-> {<<"(", "colour">>, <<"color", "colour">>}]

SpanFiles ==
    MatchFiles
        \cup {SpellFile, AbbrFile, AcrFile, TermsFile, CapFile}
        \cup {FoldFile, InnerFile, AfterFile, BlankFile, AnyFile, BrokenFile,
              LowerFile, TitleFile, LooseFile, OpenFile}
        \cup {AnyCaseFile, WithinFile, UnclosedFile}
        \cup {SwapFile(sw) : sw \in {{<<PFoo, "x">>}, {<<PFoo, "foo">>},
                                      {<<PFoo, "x">>, <<PCapture, "x">>}}}

\* The words of the texts a rule file is tried on: the ones its expressions
\* are about and one they are not.
SpanWords(c) ==
    CASE c = AnyCaseFile            -> {"color", "Colour", "the"}
      [] c = WithinFile             -> {"color", "colours", "the"}
      [] c.extends = "consistency"  -> {"color", "colour", "(color)"}
      [] c.extends = "conditional"  -> {"WHO", "(WHO)", "USA", "the"}
      [] c.extends = "substitution" -> {"foo", "ab:c", "the"}
      [] OTHER -> {"the", "The", "other", "color"}

InitSpan ==
    /\ AllChecks = <<>> /\ errs = <<>> /\ lpc = 1 /\ lghost = NoLoad
    /\ input \in {[plan |-> <<PlanItem("S", <<"R", "yml">>, c)>>, ruleToLevel |-> <<>>] :
                    c \in SpanFiles}
    /\ blocks \in {<<NewBlock(<<>>, t, <<>>, <<"text", "txt">>)>> :
                        t \in SeqsUpTo(SpanWords(input.plan[1].content), MaxSpanLen) \ {<<>>}}
    /\ file = [r \in {1} |-> NewFile(".txt", <<>>, <<"S">>, {})]
    /\ cfg = PlainConfig
    /\ pos = [r \in {1} |-> 0]
    /\ call = NoCall
    /\ IdlePipe

SpecSpan == InitSpan /\ [][NextMatch]_vars

\* C15: every alert a matcher returns for a text t has a span [s, e] with
\* 0 <= s <= e <= len(t).
C15_SpansInsideText ==
    call.run # 0 =>
        \A k \in 1..Len(call.alerts) :
            LET a == call.alerts[k]
            IN  /\ Len(a.Span) = 2
                /\ 0 <= a.Span[1] /\ a.Span[1] <= a.Span[2]
                /\ a.Span[2] <= TextLen(blocks[call.blk].Text)

\* A repetition alert whose span starts inside the text, at the previous
\* match, and ends with the current match at the end of the text.
C15_Witness ==
    /\ call.run = 1 /\ input.plan[1].content.extends = "repetition"
    /\ Len(call.alerts) = 1
    /\ call.alerts[1].Span[1] > 0
    /\ call.alerts[1].Span[2] = TextLen(blocks[1].Text)
    /\ call.alerts[1].Span[2] - call.alerts[1].Span[1] > Len(call.alerts[1].Arg)

(***************************************************************************)
(* SpecOff: a Consistency rule and an Existence rule of style A are        *)
(* registered; one block of one file is linted under every on/off override *)
(* and in-text directive keyed by the rule's name `A.Spell` or by the key  *)
(* `A.Spell.color` it is registered under.                                 *)
(***************************************************************************)
SpellKey == <<"A", "Spell", "color">>

OffPlan ==
    <<PlanItem("A", <<"Spell", "yml">>, SpellFile), PlanItem("A", <<"Terms", "yml">>, TermsFile)>>

OffOverrides == UNION {[D -> BOOLEAN] : D \in SUBSET {SpellName, SpellKey}}

InitOff ==
    /\ input = [plan |-> OffPlan, ruleToLevel |-> <<>>]
    /\ AllChecks \in Loaded(OffPlan) /\ errs = <<>> /\ lpc = Len(OffPlan) + 1
    /\ lghost = NoLoad
    /\ blocks \in {<<NewBlock(<<>>, t, <<>>, <<"text", "txt">>)>> :
                        t \in {<<"colour", "color">>, <<"the", "color">>, <<"the">>}}
    /\ \E checks \in OffOverrides, styles \in {<<>>, <<"A">>},
          comments \in {{}, {SpellName}, {SpellKey}} :
            file = [r \in {1} |-> NewFile(".txt", checks, styles, comments)]
    /\ \E gchecks \in OffOverrides : cfg = [MinAlertLevel |-> 0, GChecks |-> gchecks]
    /\ pos = [r \in {1} |-> 0]
    /\ call = NoCall
    /\ IdlePipe

SpecOff == InitOff /\ [][NextLint]_vars

\* The name is switched off for the file: by the per-extension override, by
\* the global override when the per-extension ones do not name it, or by an
\* in-text directive.
SwitchedOff(f, c, name) ==
    \/ name \in DOMAIN f.Checks /\ ~f.Checks[name]
    \/ name \notin DOMAIN f.Checks /\ name \in DOMAIN c.GChecks /\ ~c.GChecks[name]
    \/ name \in f.Comments

\* C16 (as claimed): every alert added to a file names, as its check, the
\* registry key of the rule that produced it, a rule lintText invoked in
\* that call; so no alert is added under a name that is switched off.
C16_AlertNamesItsRegistryKey ==
    call.run # 0 =>
        \A k \in 1..Len(call.alerts) :
            LET a == call.alerts[k]
            IN  /\ a.Check \in DOMAIN AllChecks
                /\ StringInSlice(a.Check, call.invoked)
                /\ ~SwitchedOff(file[call.run], cfg, a.Check)

====
